---- MODULE Spec2Model ----
(***************************************************************************)
(* Oil inventory: the quantity snapshot page (src/unnamed/part_000, and    *)
(* its team-scoped copy src/src/app/page.tsx) and the movement ledger page *)
(* (src/logo_patch_FIXED/src/app/page.tsx).  Of the team-scoped copy the  *)
(* sign-in, the memberships, the team selection and the inventory load are *)
(* modelled in the record teamPage.                                        *)
(*                                                                         *)
(* Strings are TLA+ strings, read character by character with SubSeq.      *)
(* A JavaScript number is held in tenths (one decimal digit of fraction):  *)
(* the integer n stands for n / Radix, so 25 is 2.5 and 70 is 7.  A value  *)
(* that may be NaN is a record [nan, v].  Numeric text with an exponent, a *)
(* radix prefix, "Infinity" or more than one fractional digit is outside   *)
(* this number domain and is never enumerated as an input.                 *)
(***************************************************************************)
EXTENDS Integers, Sequences, FiniteSets, TLC

VARIABLES
  warehouses,   \* useState<Warehouse[]>: sequence of [id, name]
  years,        \* useState<number[]>
  quantities,   \* useState<Record<string, number>>: entries [k, v] in insertion order
  filterYear,   \* "all" or a year (a number, in tenths)
  search,       \* the search text
  store,        \* the inventory table of the backing store: coordinate key -> qty
  upserts,      \* upserts in flight: set of [id, rows]
  fetches,      \* inventory fetches in flight: set of fetch ids
  reader,       \* FileReader reads in flight: set of [id, text, quantities, years]
  userId,       \* useState<string | null>: "" is null
  loading,      \* useState(true)
  nextId,       \* source of identities of asynchronous operations
  ops,          \* number of operations the user has made
  last,         \* the handler of the last step: what it was given, read and reported
  \* the ledger page
  ledgerWarehouses, \* useState<Warehouse[]>: sequence of [id, name]
  stock,        \* useState<StockRow[]>
  history,      \* useState<HistoryRow[]>
  ledgerLoading, \* useState(true)
  submitting,   \* useState(false)
  error,        \* useState<string | null>: "" is null
  success,      \* useState<string | null>: "" is null
  form,         \* the form state
  movements,    \* the movements table of the backing store
  calls,        \* backing store calls in flight: set of [id, kind, from, payload]
  timers,       \* pending setTimeout callbacks of submitMovement
  event,        \* the ledger handler of the last step and the queries that failed in it
  \* the key codec, the stock view and the ledger reports on their own
  probe,        \* the inputs of a pure computation and what it made of them
  \* the team-scoped page
  teamPage      \* its component state, localStorage and the calls in flight

snapVars == <<warehouses, years, quantities, filterYear, search, store,
              upserts, fetches, reader, userId, loading, nextId, ops, last>>

ledgerVars == <<ledgerWarehouses, stock, history, ledgerLoading, submitting,
                error, success, form, movements, calls, timers, event>>

vars == <<snapVars, ledgerVars, probe, teamPage>>

\* ---------------------------------------------------------------- text

Digits == "0123456789"
Lower == "abcdefghijklmnopqrstuvwxyz"
Upper == "ABCDEFGHIJKLMNOPQRSTUVWXYZ"
Radix == Len(Digits)

Max(a, b) == IF a >= b THEN a ELSE b

CharAt(s, i) == SubSeq(s, i, i)

RECURSIVE Scan(_, _, _)
Scan(c, s, i) ==
  IF i > Len(s) THEN 0
  ELSE IF CharAt(s, i) = c THEN i
  ELSE Scan(c, s, i + 1)

\* String.prototype.indexOf for a single character, 1-based; 0 when absent.
IndexOf(c, s) == Scan(c, s, 1)

HasChar(s, c) == IndexOf(c, s) # 0

IsDigit(c) == HasChar(Digits, c)

IsSpace(c) == c \in {" ", "\t", "\r", "\n"}

\* String.prototype.toLowerCase, one character.
LowerChar(c) ==
  IF HasChar(Upper, c) THEN CharAt(Lower, IndexOf(c, Upper)) ELSE c

RECURSIVE toLowerCase(_)
toLowerCase(s) ==
  IF s = "" THEN "" ELSE LowerChar(Head(s)) \o toLowerCase(Tail(s))

\* String.prototype.trim.
RECURSIVE TrimLeft(_)
TrimLeft(s) ==
  IF s # "" /\ IsSpace(Head(s)) THEN TrimLeft(Tail(s)) ELSE s

RECURSIVE TrimRight(_)
TrimRight(s) ==
  IF s # "" /\ IsSpace(CharAt(s, Len(s)))
  THEN TrimRight(SubSeq(s, 1, Len(s) - 1))
  ELSE s

trim(s) == TrimRight(TrimLeft(s))

\* String.prototype.includes.
includes(s, sub) ==
  \E i \in 1..(Len(s) - Len(sub) + 1) : SubSeq(s, i, i + Len(sub) - 1) = sub

\* String.prototype.split on a one-character separator: a sequence of strings.
RECURSIVE split(_, _)
split(s, sep) ==
  LET i == IndexOf(sep, s) IN
  IF i = 0 THEN <<s>>
  ELSE <<SubSeq(s, 1, i - 1)>> \o split(SubSeq(s, i + 1, Len(s)), sep)

\* Array.prototype.join.
RECURSIVE join(_, _)
join(parts, sep) ==
  IF parts = <<>> THEN ""
  ELSE IF Len(parts) = 1 THEN parts[1]
  ELSE parts[1] \o sep \o join(Tail(parts), sep)

\* ---------------------------------------------------------------- numbers

NaN == [nan |-> TRUE, v |-> 0]
Num(n) == [nan |-> FALSE, v |-> n]

\* a + b of JavaScript, where undefined + b is NaN.
JsAdd(a, b) == IF a.nan \/ b.nan THEN NaN ELSE Num(a.v + b.v)

\* Math.floor, on tenths.
Floor(n) == (n \div Radix) * Radix

RECURSIVE NatToStr(_)
NatToStr(n) ==
  IF n < Radix THEN CharAt(Digits, n + 1)
  ELSE NatToStr(n \div Radix) \o CharAt(Digits, (n % Radix) + 1)

\* String(number), for a number in tenths.
NumToStr(n) ==
  LET a == IF n < 0 THEN -n ELSE n
      whole == NatToStr(a \div Radix)
      frac == IF a % Radix = 0 THEN "" ELSE "." \o CharAt(Digits, (a % Radix) + 1)
  IN (IF n < 0 THEN "-" ELSE "") \o whole \o frac

AllDigits(s) == \A i \in 1..Len(s) : IsDigit(CharAt(s, i))

RECURSIVE DigitsToNat(_)
DigitsToNat(s) ==
  IF s = "" THEN 0
  ELSE DigitsToNat(SubSeq(s, 1, Len(s) - 1)) * Radix
         + (IndexOf(CharAt(s, Len(s)), Digits) - 1)

\* The number of a sign, whole digits and fraction digits.
NumOfDigits(neg, whole, frac) ==
  IF /\ AllDigits(whole) /\ AllDigits(frac)
     /\ Len(whole) + Len(frac) > 0
     /\ Len(frac) <= 1
  THEN Num((IF neg THEN -1 ELSE 1) * (DigitsToNat(whole) * Radix + DigitsToNat(frac)))
  ELSE NaN

\* The number of a sign and the text u after it, whose decimal point is at dot
\* (0: none).
NumOfUnsigned(neg, u, dot) ==
  NumOfDigits(neg,
              IF dot = 0 THEN u ELSE SubSeq(u, 1, dot - 1),
              IF dot = 0 THEN "" ELSE SubSeq(u, dot + 1, Len(u)))

NumOfSigned(neg, u) == NumOfUnsigned(neg, u, IndexOf(".", u))

\* The number of a text without surrounding white space.
NumOfTrimmed(t) ==
  IF t = "" THEN Num(0)
  ELSE NumOfSigned(Head(t) = "-", IF Head(t) \in {"-", "+"} THEN Tail(t) ELSE t)

\* Number(string): surrounding white space is ignored, the empty string is 0, an
\* optional sign, digits with an optional one-digit fraction; anything else is NaN.
StrToNum(str) == NumOfTrimmed(trim(str))

\* cells[i] of a row: a missing cell is undefined (def = FALSE).
Cell(cells, i) ==
  IF i \in 1..Len(cells) THEN [def |-> TRUE, s |-> cells[i]]
  ELSE [def |-> FALSE, s |-> ""]

\* Number(cell): Number(undefined) is NaN.
CellToNum(c) == IF c.def THEN StrToNum(c.s) ELSE NaN

\* !cell is false: the cell is a non-empty string.
CellTruthy(c) == c.def /\ c.s # ""

\* ---------------------------------------------------------------- constants

\* A whole number n as a number in tenths.
Whole(n) == n * Radix

DEFAULT_WAREHOUSES == <<[id |-> "roma", name |-> "Roma"], [id |-> "neci", name |-> "Neci"]>>
\* The years addYear accepts.
MinYear == 2000
MaxYear == 2100

LOTS == <<"A", "B", "C">>
FORMATS == <<"500ml", "250ml", "5L">>

Range(f) == {f[i] : i \in DOMAIN f}

\* ---------------------------------------------------------------- key codec

\* The four fields joined with "-".
keyOfDash(k) ==
  NumToStr(k.year) \o "-" \o k.lot \o "-" \o k.format \o "-" \o k.warehouseId

keyOf(k) ==
  NumToStr(k.year) \o "_" \o k.lot \o "_" \o k.format \o "_" \o k.warehouseId

ItemKey(year, lot, format, warehouseId) ==
  [year |-> year, lot |-> lot, format |-> format, warehouseId |-> warehouseId]

\* The null of parseKey.
Null == [ok |-> FALSE, k |-> ItemKey(0, "", "", "")]

\* const [yearStr, lot, format, warehouseId] = s.split("_"): parts past the
\* fourth are dropped, a missing part is undefined.
parseKey(s) ==
  LET parts == split(s, "_")
      year == CellToNum(Cell(parts, 1))
      lot == Cell(parts, 2)
      format == Cell(parts, 3)
      warehouseId == Cell(parts, 4)
  IN IF \/ year.nan \/ year.v = 0
        \/ ~CellTruthy(lot) \/ ~CellTruthy(format) \/ ~CellTruthy(warehouseId)
     THEN Null
     ELSE [ok |-> TRUE, k |-> ItemKey(year.v, lot.s, format.s, warehouseId.s)]

\* ---------------------------------------------------------------- quantities

Keys(q) == {q[i].k : i \in 1..Len(q)}

Has(q, key) == key \in Keys(q)

Entry(q, key) == CHOOSE i \in 1..Len(q) : q[i].k = key

\* quantities[key] || 0
Get(q, key) == IF Has(q, key) THEN q[Entry(q, key)].v ELSE 0

\* { ...q, [key]: v } and q[key] = v: a present key keeps its place.
Put(q, key, v) ==
  IF Has(q, key) THEN [q EXCEPT ![Entry(q, key)].v = v]
  ELSE Append(q, [k |-> key, v |-> v])

\* Array.from(set).sort((a, b) => b - a)
RECURSIVE SortDesc(_)
SortDesc(S) ==
  IF S = {} THEN <<>>
  ELSE LET m == CHOOSE x \in S : \A y \in S : y <= x
       IN <<m>> \o SortDesc(S \ {m})

\* ---------------------------------------------------------------- CSV

RECURSIVE DoubleQuotes(_)
\* s.replaceAll('"', '""')
DoubleQuotes(s) ==
  IF s = "" THEN ""
  ELSE (IF Head(s) = "\"" THEN "\"\"" ELSE Head(s)) \o DoubleQuotes(Tail(s))

\* /[",\n]/.test(s) ? '"' + s.replaceAll('"', '""') + '"' : s
csvEscape(s) ==
  IF HasChar(s, "\"") \/ HasChar(s, ",") \/ HasChar(s, "\n")
  THEN "\"" \o DoubleQuotes(s) \o "\""
  ELSE s

CsvHeaders == <<"year", "lot", "format", "warehouse", "qty">>

\* The data line of one entry of quantities; no line for a key parseKey rejects.
ExportLines(e) ==
  LET p == parseKey(e.k) IN
  IF ~p.ok THEN <<>>
  ELSE <<join(<<csvEscape(NumToStr(p.k.year)), csvEscape(p.k.lot),
                csvEscape(p.k.format), csvEscape(p.k.warehouseId),
                csvEscape(NumToStr(e.v))>>, ",")>>

RECURSIVE ExportRows(_)
ExportRows(q) ==
  IF q = <<>> THEN <<>> ELSE ExportLines(Head(q)) \o ExportRows(Tail(q))

\* The text of the blob exportCSV offers for download.
exportCSV(q) == join(<<join(CsvHeaders, ",")>> \o ExportRows(q), "\n")

\* text.split(/\r?\n/).filter(Boolean)
StripLines(pieces) ==
  LET Strip(i, s) ==
        IF i < Len(pieces) /\ s # "" /\ CharAt(s, Len(s)) = "\r"
        THEN SubSeq(s, 1, Len(s) - 1)
        ELSE s
      NonEmpty(s) == s # ""
  IN SelectSeq([i \in 1..Len(pieces) |-> Strip(i, pieces[i])], NonEmpty)

SplitLines(text) == StripLines(split(text, "\n"))

\* colIdx falling back to the first column for a missing name.
colIdxOrFirst(cols, name) ==
  IF \E i \in 1..Len(cols) : cols[i] = name
  THEN CHOOSE i \in 1..Len(cols) :
         /\ cols[i] = name
         /\ \A j \in 1..(i - 1) : cols[j] # name
  ELSE 1

\* cols.findIndex((c) => c === name), 1-based; 0 stands for -1.
colIdx(cols, name) ==
  IF \E i \in 1..Len(cols) : cols[i] = name
  THEN CHOOSE i \in 1..Len(cols) :
         /\ cols[i] = name
         /\ \A j \in 1..(i - 1) : cols[j] # name
  ELSE 0

\* The body of importCSV's loop after its five reads of the row's cells.
ImportFields(acc, year, lot, format, warehouseId, qty) ==
  IF \/ year.nan \/ year.v = 0
     \/ ~CellTruthy(lot) \/ ~CellTruthy(format) \/ ~CellTruthy(warehouseId)
     \/ qty.nan
  THEN acc
  ELSE LET k == ItemKey(year.v, lot.s, format.s, warehouseId.s)
           q == Max(0, Floor(qty.v))
       IN [next |-> Put(acc.next, keyOf(k), q),
           nextYears |-> acc.nextYears \cup {year.v},
           ups |-> Append(acc.ups, [k |-> k, qty |-> q])]

ImportCells(acc, cells, iYear, iLot, iFormat, iWh, iQty) ==
  ImportFields(acc, CellToNum(Cell(cells, iYear)), Cell(cells, iLot),
               Cell(cells, iFormat), Cell(cells, iWh), CellToNum(Cell(cells, iQty)))

\* One data row of importCSV: the accumulator [next, nextYears, ups] after it.
ImportRow(acc, r, iYear, iLot, iFormat, iWh, iQty) ==
  ImportCells(acc, split(r, ","), iYear, iLot, iFormat, iWh, iQty)

RECURSIVE ImportRowsBreak(_, _, _, _, _, _, _)
\* A loop that stops at the first row it skips.
ImportRowsBreak(acc, rows, iYear, iLot, iFormat, iWh, iQty) ==
  IF rows = <<>> THEN acc
  ELSE LET a == ImportRow(acc, Head(rows), iYear, iLot, iFormat, iWh, iQty) IN
       IF a = acc THEN acc
       ELSE ImportRowsBreak(a, Tail(rows), iYear, iLot, iFormat, iWh, iQty)

RECURSIVE ImportRows(_, _, _, _, _, _, _)
ImportRows(acc, rows, iYear, iLot, iFormat, iWh, iQty) ==
  IF rows = <<>> THEN acc
  ELSE ImportRows(ImportRow(acc, Head(rows), iYear, iLot, iFormat, iWh, iQty),
                  Tail(rows), iYear, iLot, iFormat, iWh, iQty)

\* What the try block leaves when it throws before setQuantities.
ImportThrew(q0, years0) ==
  [threw |-> TRUE, next |-> q0, nextYears |-> years0, ups |-> <<>>]

ImportDone(acc) ==
  [threw |-> FALSE, next |-> acc.next, nextYears |-> SortDesc(acc.nextYears),
   ups |-> acc.ups]

ImportColumns(rows, q0, years0, iYear, iLot, iFormat, iWh, iQty) ==
  IF \E i \in {iYear, iLot, iFormat, iWh, iQty} : i < 1
  THEN ImportThrew(q0, years0)
  ELSE ImportDone(ImportRows([next |-> q0, nextYears |-> Range(years0), ups |-> <<>>],
                             rows, iYear, iLot, iFormat, iWh, iQty))

ImportTable(cols, rows, q0, years0) ==
  ImportColumns(rows, q0, years0, colIdx(cols, "year"), colIdx(cols, "lot"),
                colIdx(cols, "format"), colIdx(cols, "warehouse"), colIdx(cols, "qty"))

\* header.split(",").map((s) => s.trim())
HeaderCols(hs) == [i \in 1..Len(hs) |-> trim(hs[i])]

ImportLines(lines, q0, years0) ==
  IF lines = <<>> THEN ImportThrew(q0, years0)  \* header is undefined: header.split throws
  ELSE ImportTable(HeaderCols(split(Head(lines), ",")), Tail(lines), q0, years0)

\* The try block of reader.onload up to the batch upsert, for the text read and
\* the quantities and years of the render that chose the file: whether it threw,
\* and the next, nextYears and ups it built.
ImportParse(text, q0, years0) == ImportLines(SplitLines(text), q0, years0)

\* ---------------------------------------------------------------- grid and totals

\* The year filter: "all", or one year.
All == [all |-> TRUE, year |-> 0]
OneYear(y) == [all |-> FALSE, year |-> y]

RECURSIVE InsertDesc(_, _)
InsertDesc(sorted, y) ==
  IF sorted = <<>> THEN <<y>>
  ELSE IF y > Head(sorted) THEN <<y>> \o sorted
  ELSE <<Head(sorted)>> \o InsertDesc(Tail(sorted), y)

RECURSIVE sortDesc(_)
\* array.sort((a, b) => b - a)
sortDesc(a) ==
  IF a = <<>> THEN <<>> ELSE InsertDesc(sortDesc(Tail(a)), Head(a))

\* Rows with the formats in the outer loop and the lots in the inner one.
makeRowsFormatsFirst(yrs, whs, q) ==
  LET ys == sortDesc(yrs)
      nl == Len(LOTS)
      nf == Len(FORMATS)
  IN [i \in 1..(Len(ys) * nl * nf) |->
        [year |-> ys[((i - 1) \div (nl * nf)) + 1],
         lot |-> LOTS[((i - 1) % nl) + 1],
         format |-> FORMATS[(((i - 1) \div nl) % nf) + 1],
         totals |-> [id \in {whs[j].id : j \in 1..Len(whs)} |->
                       Get(q, keyOf(ItemKey(ys[((i - 1) \div (nl * nf)) + 1],
                                            LOTS[((i - 1) % nl) + 1],
                                            FORMATS[(((i - 1) \div nl) % nf) + 1], id)))]]]

\* Rows for the first format only: one row per year and lot.
makeRowsFirstFormat(yrs, whs, q) ==
  LET ys == sortDesc(yrs)
      nl == Len(LOTS)
  IN [i \in 1..(Len(ys) * nl) |->
        [year |-> ys[((i - 1) \div nl) + 1], lot |-> LOTS[((i - 1) % nl) + 1],
         format |-> FORMATS[1],
         totals |-> [id \in {whs[j].id : j \in 1..Len(whs)} |->
                       Get(q, keyOf(ItemKey(ys[((i - 1) \div nl) + 1],
                                            LOTS[((i - 1) % nl) + 1], FORMATS[1], id)))]]]

\* makeRows: one row per year (descending), lot and format, with the quantity of
\* every displayed warehouse.
makeRows(yrs, whs, q) ==
  LET ys == sortDesc(yrs)
      nl == Len(LOTS)
      nf == Len(FORMATS)
      Row(i) ==
        LET year == ys[((i - 1) \div (nl * nf)) + 1]
            lot == LOTS[(((i - 1) \div nf) % nl) + 1]
            format == FORMATS[((i - 1) % nf) + 1]
        IN [year |-> year, lot |-> lot, format |-> format,
            totals |-> [id \in {whs[j].id : j \in 1..Len(whs)} |->
                          Get(q, keyOf(ItemKey(year, lot, format, id)))]]
  IN [i \in 1..(Len(ys) * nl * nf) |-> Row(i)]

\* The search filter alone, whatever the year filter.
RowShownAnyYear(r, fy, srch) ==
  \/ trim(srch) = ""
  \/ includes(NumToStr(r.year), toLowerCase(trim(srch)))
  \/ includes(toLowerCase(r.lot), toLowerCase(trim(srch)))
  \/ includes(toLowerCase(r.format), toLowerCase(trim(srch)))

\* The two filters of the rows memo, on one row: the year filter, then the
\* search text when search.trim() is not empty.
RowShown(r, fy, srch) ==
  LET s == toLowerCase(trim(srch)) IN
  /\ fy.all \/ r.year = fy.year
  /\ \/ trim(srch) = ""
     \/ includes(NumToStr(r.year), s)
     \/ includes(toLowerCase(r.lot), s)
     \/ includes(toLowerCase(r.format), s)

\* The rows memo: makeRows filtered by the year filter and the search text.
rows(yrs, whs, q, fy, srch) ==
  LET Shown(r) == RowShown(r, fy, srch)
  IN SelectSeq(makeRows(yrs, whs, q), Shown)

RECURSIVE SumTotals(_, _)
SumTotals(r, whs) ==
  IF whs = <<>> THEN 0
  ELSE r.totals[Head(whs).id] + SumTotals(r, Tail(whs))

\* warehouses.reduce((sum, w) => sum + (r.totals[w.id] || 0), 0)
rowTotal(r, whs) == SumTotals(r, whs)

RECURSIVE GrandLoop(_, _, _)
\* for (const k in quantities) { ... byWarehouse[parsed.warehouseId] += ... }
GrandLoop(byWarehouse, q, fy) ==
  IF q = <<>> THEN byWarehouse
  ELSE
    LET e == Head(q)
        parsed == parseKey(e.k)
        id == parsed.k.warehouseId
        sum == IF id \in DOMAIN byWarehouse
               THEN JsAdd(byWarehouse[id], Num(e.v))
               ELSE NaN   \* undefined + number
        step == IF ~parsed.ok THEN byWarehouse
                ELSE IF ~fy.all /\ parsed.k.year # fy.year THEN byWarehouse
                ELSE [x \in DOMAIN byWarehouse \cup {id} |->
                        IF x = id THEN sum ELSE byWarehouse[x]]
    IN GrandLoop(step, Tail(q), fy)

\* The totals of all years, whatever the year filter.
grandTotalsAllYears(q, whs, fy) ==
  GrandLoop([id \in {whs[j].id : j \in 1..Len(whs)} |-> Num(0)], q, All)

\* The grandTotals memo: warehouse id -> total.
grandTotals(q, whs, fy) ==
  GrandLoop([id \in {whs[j].id : j \in 1..Len(whs)} |-> Num(0)], q, fy)

RECURSIVE SumValues(_, _)
SumValues(f, ids) ==
  IF ids = {} THEN Num(0)
  ELSE LET id == CHOOSE x \in ids : TRUE
       IN JsAdd(f[id], SumValues(f, ids \ {id}))

\* Object.values(grandTotals).reduce((a, b) => a + b, 0)
grandTotal(byWarehouse) == SumValues(byWarehouse, DOMAIN byWarehouse)

\* ---------------------------------------------------------------- bounds and inputs

\* Operations the user makes in one run (sign-ins, edits of cells and of lists,
\* filters, imports).
MaxOps == 2
\* The largest quantity, in whole pieces, that adjust(+1) is applied to.
MaxQty == 11

\* new Date().getFullYear()
CurrentYear == Whole(2025)

\* The rows of the inventory table when the page is opened.
InitStore ==
  (ItemKey(Whole(2024), "A", "500ml", "roma") :> Whole(10))
\* The table before any row was written.
EmptyStore == [k \in {} |-> Whole(0)]
\* The page is opened on either table.
InitStores == {InitStore, EmptyStore}

Users == {"u1"}
\* Number(e.target.value) of a type="number" input: -5, 2.5, 4.
QtyInputs == {-50, 25, 40}
\* The cells the run edits: every displayed year and warehouse, these lots
\* and formats.
EditLots == {"A"}
EditFormats == {"500ml"}
\* What the user types into the prompt of addYear, addWarehouse, renameWarehouse.
YearPrompts == {"2024", "1999", "abc"}
WarehousePrompts == {"Bari_Sud", " ROMA "}
RenamePrompts == {"Rome"}
SearchInputs == {"", " 5l ", "A", "24"}
\* The CSV files the user imports.
ScenarioCsv == "year,lot,format,warehouse,qty\n2024,A,500ml,roma,7\nbad,row\n"
NoQtyColumnCsv == "year,lot,format,warehouse\n2024,A,500ml,roma,7"
MixedCsv ==
  "qty, year ,lot,format,warehouse\r\n2.5,2023,D,5L,ro_ma\r\nx,2023,A,5L,roma\r\n"
    \o "4,2023,,5L,roma\r\n3,0,A,5L,roma\r\n-1,2025,B,250ml,neci\r\n"
\* A file with a row of a year before 2000.
OldYearCsv == "year,lot,format,warehouse,qty\n1999,A,500ml,roma,1\n"
ImportTexts == {ScenarioCsv, NoQtyColumnCsv, MixedCsv, OldYearCsv, ""}

\* ---------------------------------------------------------------- state machine

\* The record of the last handler; quiet says that since the last hydrate that
\* found no write in flight there were only setQty calls and upserts that
\* resolved without error.
NoOp ==
  [op |-> "none", key |-> "", v |-> 0, before |-> 0, msg |-> "", text |-> "",
   quiet |-> FALSE]

Did(op) ==
  [NoOp EXCEPT !.op = op,
               !.quiet = IF op = "fetchDone" THEN upserts = {}
                         ELSE op \in {"setQty", "upsertDone"} /\ last.quiet]

SnapshotInit ==
  /\ warehouses = DEFAULT_WAREHOUSES
  /\ years = <<CurrentYear>>
  /\ quantities = <<>>
  /\ filterYear = All
  /\ search = ""
  /\ store \in InitStores
  /\ upserts = {}
  /\ fetches = {[id |-> 0, kind |-> "getUser"]}
  /\ reader = {}
  /\ userId = ""
  /\ loading = TRUE
  /\ nextId = 1
  /\ ops = 0
  /\ last = NoOp

\* The page below the loading and sign-in screens is rendered.
Rendered == userId # "" /\ ~loading

\* setUserId(user), and the load effect that runs when userId changed to a user:
\* setLoading(true) and the select on inventory.
SetUser(user, load0, fetches0) ==
  /\ userId' = user
  /\ IF user # "" /\ user # userId
     THEN /\ loading' = TRUE
          /\ fetches' = fetches0 \cup {[id |-> nextId, kind |-> "inventory"]}
          /\ nextId' = nextId + 1
     ELSE /\ loading' = load0
          /\ fetches' = fetches0
          /\ nextId' = nextId

\* supabase.auth.getUser() resolves, with a user or with none.
getUser(f, user) ==
  /\ f \in fetches /\ f.kind = "getUser"
  /\ SetUser(user, FALSE, fetches \ {f})
  /\ last' = Did("getUser")
  /\ UNCHANGED <<ops, warehouses, years, quantities, filterYear, search, store,
                 upserts, reader>>
  /\ UNCHANGED <<ledgerVars, probe, teamPage>>

\* onAuthStateChange: a sign-in or a sign-out.
onAuthStateChange(user) ==
  /\ user # userId
  /\ ops < MaxOps
  /\ ops' = ops + 1
  /\ SetUser(user, loading, fetches)
  /\ last' = Did("onAuthStateChange")
  /\ UNCHANGED <<warehouses, years, quantities, filterYear, search, store,
                 upserts, reader>>
  /\ UNCHANGED <<ledgerVars, probe, teamPage>>

RECURSIVE StoreRows(_, _)
\* select(...).order("year", { ascending: false }) on the table st, keys ks.
StoreRows(st, ks) ==
  IF ks = {} THEN <<>>
  ELSE LET k == CHOOSE x \in ks : \A y \in ks : y.year <= x.year
       IN <<[k |-> k, qty |-> st[k] ]>> \o StoreRows(st, ks \ {k})

RECURSIVE HydrateLoop(_, _)
\* for (const row of data) { next[keyOf(...)] = qty; nextYears.add(year) }
HydrateLoop(acc, data) ==
  IF data = <<>> THEN acc
  ELSE HydrateLoop([next |-> Put(acc.next, keyOf(Head(data).k), Head(data).qty),
                    nextYears |-> acc.nextYears \cup {Head(data).k.year}],
                   Tail(data))

\* A hydrate that writes the fetched rows over the map it finds.
fetchDoneMerge(f) ==
  /\ f \in fetches /\ f.kind = "inventory"
  /\ LET got == HydrateLoop([next |-> quantities, nextYears |-> {}],
                            StoreRows(store, DOMAIN store))
     IN /\ quantities' = got.next
        /\ years' = IF got.nextYears # {} THEN SortDesc(got.nextYears) ELSE years
  /\ loading' = FALSE
  /\ fetches' = fetches \ {f}
  /\ last' = Did("fetchDone")
  /\ UNCHANGED <<ops, warehouses, filterYear, search, store, upserts, reader, userId,
                 nextId>>
  /\ UNCHANGED <<ledgerVars, probe, teamPage>>

\* The inventory select resolves with the rows of the table.
fetchDone(f) ==
  /\ f \in fetches /\ f.kind = "inventory"
  /\ LET got == HydrateLoop([next |-> <<>>, nextYears |-> {}],
                            StoreRows(store, DOMAIN store))
     IN /\ quantities' = got.next
        /\ years' = IF got.nextYears # {} THEN SortDesc(got.nextYears) ELSE years
  /\ loading' = FALSE
  /\ fetches' = fetches \ {f}
  /\ last' = Did("fetchDone")
  /\ UNCHANGED <<ops, warehouses, filterYear, search, store, upserts, reader, userId,
                 nextId>>
  /\ UNCHANGED <<ledgerVars, probe, teamPage>>

\* The inventory select resolves with an error.
fetchError(f) ==
  /\ f \in fetches /\ f.kind = "inventory"
  /\ loading' = FALSE
  /\ fetches' = fetches \ {f}
  /\ last' = [Did("fetchError") EXCEPT !.msg = "console.error"]
  /\ UNCHANGED <<ops, warehouses, years, quantities, filterYear, search, store,
                 upserts, reader, userId, nextId>>
  /\ UNCHANGED <<ledgerVars, probe, teamPage>>

\* Clamp without the Math.max(0, ...).
ClampNoMax(next) == Floor(next)

\* Clamp without the Math.floor.
ClampNoFloor(next) == Max(0, next)

\* Math.max(0, Math.floor(next))
Clamp(next) == Max(0, Floor(next))

\* The cells whose input and buttons the table shows: one per row of the rows
\* memo and displayed warehouse.
Displayed(k) ==
  /\ \E i \in 1..Len(warehouses) : warehouses[i].id = k.warehouseId
  /\ k.year \in Range(years)
  /\ k.lot \in Range(LOTS) /\ k.format \in Range(FORMATS)
  /\ RowShown(k, filterYear, search)

EditCells ==
  {k \in {ItemKey(y, l, f, warehouses[i].id) :
            y \in Range(years), l \in EditLots, f \in EditFormats,
            i \in 1..Len(warehouses)} : Displayed(k)}

\* The body of setQty: the state update, then persistQty's upsert is issued.
SetQtyBody(k, next) ==
  LET q == Clamp(next) IN
  /\ quantities' = Put(quantities, keyOf(k), q)
  /\ upserts' = upserts \cup
       {[id |-> nextId, batch |-> FALSE, rows |-> <<[k |-> k, qty |-> q]>>]}
  /\ nextId' = nextId + 1

setQty(k, next) ==
  /\ Rendered
  /\ ops < MaxOps
  /\ ops' = ops + 1
  /\ SetQtyBody(k, next)
  /\ last' = [Did("setQty") EXCEPT !.key = keyOf(k), !.v = next,
                                   !.before = Get(quantities, keyOf(k))]
  /\ UNCHANGED <<warehouses, years, filterYear, search, store, fetches, reader,
                 userId, loading>>
  /\ UNCHANGED <<ledgerVars, probe, teamPage>>

\* quantities[k] || 0, the key object in place of its string: always 0.
CurrNoKeyOf(k) == 0

\* const curr = quantities[keyOf(k)] || 0
Curr(k) == Get(quantities, keyOf(k))

adjust(k, delta) ==
  /\ Rendered
  /\ ops < MaxOps
  /\ ops' = ops + 1
  /\ LET curr == Curr(k) IN
       /\ curr + delta <= Whole(MaxQty)
       /\ SetQtyBody(k, curr + delta)
       /\ last' = [Did("adjust") EXCEPT !.key = keyOf(k), !.v = delta,
                                        !.before = Get(quantities, keyOf(k))]
  /\ UNCHANGED <<warehouses, years, filterYear, search, store, fetches, reader,
                 userId, loading>>
  /\ UNCHANGED <<ledgerVars, probe, teamPage>>

\* The checks of the inventory table (its SQL schema): year and qty are int
\* columns, lot and format are checked against their lists.
DbAccepts(row) ==
  /\ row.k.year % Radix = 0
  /\ row.qty % Radix = 0
  /\ row.k.lot \in Range(LOTS)
  /\ row.k.format \in Range(FORMATS)

RECURSIVE Upserted(_, _)
\* The table after the rows are upserted on their primary key.
Upserted(st, rs) ==
  IF rs = <<>> THEN st
  ELSE Upserted([x \in DOMAIN st \cup {Head(rs).k} |->
                   IF x = Head(rs).k THEN Head(rs).qty ELSE st[x]],
                Tail(rs))

\* An upsert resolves without error.
upsertDone(u) ==
  /\ u \in upserts
  /\ \A i \in 1..Len(u.rows) : DbAccepts(u.rows[i])
  /\ store' = Upserted(store, u.rows)
  /\ upserts' = upserts \ {u}
  /\ last' = [Did("upsertDone") EXCEPT
                !.msg = IF u.batch THEN "alert: Importazione completata" ELSE ""]
  /\ UNCHANGED <<ops, warehouses, years, quantities, filterYear, search, fetches,
                 reader, userId, loading, nextId>>
  /\ UNCHANGED <<ledgerVars, probe, teamPage>>

\* A failed upsert that takes its rows out of the snapshot again.
upsertErrorRollback(u) ==
  /\ u \in upserts
  /\ upserts' = upserts \ {u}
  /\ quantities' = SelectSeq(quantities, LAMBDA e :
                      \A i \in 1..Len(u.rows) : keyOf(u.rows[i].k) # e.k)
  /\ last' = [Did("upsertError") EXCEPT
                !.msg = IF u.batch THEN "alert: Errore importazione"
                        ELSE "console.error: Errore upsert"]
  /\ UNCHANGED <<ops, warehouses, years, filterYear, search, store,
                 fetches, reader, userId, loading, nextId>>
  /\ UNCHANGED <<ledgerVars, probe, teamPage>>

\* An upsert resolves with an error: persistQty logs it, importCSV's catch
\* alerts it.
upsertError(u) ==
  /\ u \in upserts
  /\ upserts' = upserts \ {u}
  /\ last' = [Did("upsertError") EXCEPT
                !.msg = IF u.batch THEN "alert: Errore importazione"
                        ELSE "console.error: Errore upsert"]
  /\ UNCHANGED <<ops, warehouses, years, quantities, filterYear, search, store,
                 fetches, reader, userId, loading, nextId>>
  /\ UNCHANGED <<ledgerVars, probe, teamPage>>

\* y is what prompt returned; "" stands for null and for the empty string.
addYear(y) ==
  /\ Rendered
  /\ ops < MaxOps
  /\ ops' = ops + 1
  /\ LET n == StrToNum(y) IN
       IF y = "" THEN UNCHANGED years /\ last' = Did("addYear")
       ELSE IF n.nan \/ n.v = 0 \/ n.v < Whole(MinYear) \/ n.v > Whole(MaxYear)
       THEN UNCHANGED years
            /\ last' = [Did("addYear") EXCEPT !.msg = "alert: Anno non valido"]
       ELSE years' = SortDesc(Range(years) \cup {n.v})
            /\ last' = Did("addYear")
  /\ UNCHANGED <<warehouses, quantities, filterYear, search, store, upserts,
                 fetches, reader, userId, loading, nextId>>
  /\ UNCHANGED <<ledgerVars, probe, teamPage>>

RECURSIVE SlugUnderscore(_, _)
\* A slug that joins the words with the delimiter of the keys.
SlugUnderscore(s, inRun) ==
  IF s = "" THEN ""
  ELSE IF HasChar(Lower, Head(s)) \/ IsDigit(Head(s))
  THEN Head(s) \o SlugUnderscore(Tail(s), FALSE)
  ELSE (IF inRun THEN "" ELSE "_") \o SlugUnderscore(Tail(s), TRUE)

RECURSIVE Slug(_, _)
\* s.replace(/[^a-z0-9]+/g, "-"): inRun says the previous character was replaced.
Slug(s, inRun) ==
  IF s = "" THEN ""
  ELSE IF HasChar(Lower, Head(s)) \/ IsDigit(Head(s))
  THEN Head(s) \o Slug(Tail(s), FALSE)
  ELSE (IF inRun THEN "" ELSE "-") \o Slug(Tail(s), TRUE)

\* name.trim().toLowerCase().replace(/[^a-z0-9]+/g, "-")
slugOf(name) == Slug(toLowerCase(trim(name)), FALSE)

addWarehouse(name) ==
  /\ Rendered
  /\ ops < MaxOps
  /\ ops' = ops + 1
  /\ LET id == slugOf(name) IN
       IF name = "" THEN UNCHANGED warehouses /\ last' = Did("addWarehouse")
       ELSE IF id = ""
       THEN UNCHANGED warehouses
            /\ last' = [Did("addWarehouse") EXCEPT
                          !.text = name, !.msg = "alert: Nome non valido"]
       ELSE IF \E i \in 1..Len(warehouses) : warehouses[i].id = id
       THEN UNCHANGED warehouses
            /\ last' = [Did("addWarehouse") EXCEPT
                          !.text = name, !.msg = "alert: Magazzino gia presente"]
       ELSE warehouses' = Append(warehouses, [id |-> id, name |-> trim(name)])
            /\ last' = [Did("addWarehouse") EXCEPT !.text = name]
  /\ UNCHANGED <<years, quantities, filterYear, search, store, upserts, fetches,
                 reader, userId, loading, nextId>>
  /\ UNCHANGED <<ledgerVars, probe, teamPage>>

renameWarehouse(id, name) ==
  /\ Rendered
  /\ ops < MaxOps
  /\ ops' = ops + 1
  /\ \E i \in 1..Len(warehouses) : warehouses[i].id = id
  /\ warehouses' =
       IF name = "" THEN warehouses
       ELSE [i \in 1..Len(warehouses) |->
               IF warehouses[i].id = id
               THEN [warehouses[i] EXCEPT !.name = name]
               ELSE warehouses[i]]
  /\ last' = Did("renameWarehouse")
  /\ UNCHANGED <<years, quantities, filterYear, search, store, upserts, fetches,
                 reader, userId, loading, nextId>>
  /\ UNCHANGED <<ledgerVars, probe, teamPage>>

\* confirmed is what confirm returned.
\* A deletion that also drops the quantities whose key decodes to the warehouse.
deleteWarehousePurge(id, confirmed) ==
  /\ Rendered
  /\ ops < MaxOps
  /\ ops' = ops + 1
  /\ \E i \in 1..Len(warehouses) : warehouses[i].id = id
  /\ warehouses' =
       IF ~confirmed THEN warehouses
       ELSE LET Keep(w) == w.id # id IN SelectSeq(warehouses, Keep)
  /\ quantities' =
       IF ~confirmed THEN quantities
       ELSE LET Keep(e) == parseKey(e.k).k.warehouseId # id IN SelectSeq(quantities, Keep)
  /\ last' = [Did("deleteWarehouse") EXCEPT
                !.key = id, !.text = IF confirmed THEN "confirm: ok" ELSE "confirm: cancel"]
  /\ UNCHANGED <<years, filterYear, search, store, upserts, fetches,
                 reader, userId, loading, nextId>>
  /\ UNCHANGED <<ledgerVars, probe, teamPage>>

deleteWarehouse(id, confirmed) ==
  /\ Rendered
  /\ ops < MaxOps
  /\ ops' = ops + 1
  /\ \E i \in 1..Len(warehouses) : warehouses[i].id = id
  /\ warehouses' =
       IF ~confirmed THEN warehouses
       ELSE LET Keep(w) == w.id # id IN SelectSeq(warehouses, Keep)
  /\ last' = [Did("deleteWarehouse") EXCEPT
                !.key = id, !.text = IF confirmed THEN "confirm: ok" ELSE "confirm: cancel"]
  /\ UNCHANGED <<years, quantities, filterYear, search, store, upserts, fetches,
                 reader, userId, loading, nextId>>
  /\ UNCHANGED <<ledgerVars, probe, teamPage>>

\* The year select: "all", or one of the years.
setFilterYear(fy) ==
  /\ Rendered
  /\ ops < MaxOps
  /\ ops' = ops + 1
  /\ fy # filterYear
  /\ filterYear' = fy
  /\ last' = Did("setFilterYear")
  /\ UNCHANGED <<warehouses, years, quantities, search, store, upserts, fetches,
                 reader, userId, loading, nextId>>
  /\ UNCHANGED <<ledgerVars, probe, teamPage>>

setSearch(s) ==
  /\ Rendered
  /\ ops < MaxOps
  /\ ops' = ops + 1
  /\ s # search
  /\ search' = s
  /\ last' = Did("setSearch")
  /\ UNCHANGED <<warehouses, years, quantities, filterYear, store, upserts,
                 fetches, reader, userId, loading, nextId>>
  /\ UNCHANGED <<ledgerVars, probe, teamPage>>

\* importCSV: a file is chosen and reader.readAsText(file) is started; onload
\* closes over the quantities and years of this render.
importCSV(text) ==
  /\ Rendered
  /\ ops < MaxOps
  /\ ops' = ops + 1
  /\ reader' = reader \cup
       {[id |-> nextId, text |-> text, quantities |-> quantities, years |-> years]}
  /\ nextId' = nextId + 1
  /\ last' = Did("importCSV")
  /\ UNCHANGED <<warehouses, years, quantities, filterYear, search, store,
                 upserts, fetches, userId, loading>>
  /\ UNCHANGED <<ledgerVars, probe, teamPage>>

\* reader.onload, up to its await of the batch upsert (or to its end when it
\* throws or has no row to upsert).
\* reader.onload once its try block has built p, or thrown.
Onloaded(r, p) ==
  IF p.threw
  THEN /\ UNCHANGED <<quantities, years, upserts>>
       /\ last' = [Did("onload") EXCEPT !.text = r.text,
                     !.msg = "alert: Errore importazione"]
  ELSE /\ quantities' = p.next
       /\ years' = p.nextYears
       /\ upserts' =
            IF p.ups = <<>> THEN upserts
            ELSE upserts \cup {[id |-> r.id, batch |-> TRUE, rows |-> p.ups]}
       /\ last' = [Did("onload") EXCEPT !.text = r.text,
                     !.msg = IF p.ups = <<>>
                             THEN "alert: Importazione completata" ELSE ""]

onload(r) ==
  /\ r \in reader
  /\ reader' = reader \ {r}
  /\ Onloaded(r, ImportParse(r.text, r.quantities, r.years))
  /\ UNCHANGED <<ops, warehouses, filterYear, search, store, fetches, userId, loading,
                 nextId>>
  /\ UNCHANGED <<ledgerVars, probe, teamPage>>

Next ==
  \/ \E f \in fetches, user \in Users \cup {""} : getUser(f, user)
  \/ \E user \in Users \cup {""} : onAuthStateChange(user)
  \/ \E f \in fetches : fetchDone(f)
  \/ \E f \in fetches : fetchError(f)
  \/ \E k \in EditCells, v \in QtyInputs : setQty(k, v)
  \/ \E k \in EditCells, d \in {Whole(1), -Whole(1)} : adjust(k, d)
  \/ \E u \in upserts : upsertDone(u)
  \/ \E u \in upserts : upsertError(u)
  \/ \E y \in YearPrompts : addYear(y)
  \/ \E name \in WarehousePrompts : addWarehouse(name)
  \/ \E i \in 1..Len(warehouses), name \in RenamePrompts :
       renameWarehouse(warehouses[i].id, name)
  \/ \E i \in 1..Len(warehouses), c \in BOOLEAN :
       deleteWarehouse(warehouses[i].id, c)
  \/ \E fy \in {All} \cup {OneYear(y) : y \in Range(years)} : setFilterYear(fy)
  \/ \E s \in SearchInputs : setSearch(s)
  \/ \E text \in ImportTexts : importCSV(text)
  \/ \E r \in reader : onload(r)

\* ---------------------------------------------------------------- the ledger page

\* What a query resolves to: { data, error }.  data is null when error is set.
Ok(data) == [isNull |-> FALSE, data |-> data, error |-> ""]
Failed(message) == [isNull |-> TRUE, data |-> <<>>, error |-> message]

\* (data || [])
OrEmpty(res) == IF res.isNull THEN <<>> ELSE res.data

\* parseInt(e.target.value || '0') of a number input's text.
parseInt(str) ==
  LET n == StrToNum(IF str = "" THEN "0" ELSE str) IN
  IF n.nan THEN NaN
  ELSE Num(IF n.v >= 0 THEN Floor(n.v) ELSE -Floor(-n.v))

\* Rows the backing store may answer with.
LedgerDepots == <<[id |-> "w1", name |-> "Neci"], [id |-> "w2", name |-> "Roma"]>>
StockRoma ==
  [warehouse |-> "Roma", year |-> Whole(2024), lot |-> "A", format |-> "500ml",
   pezzi |-> Whole(7), litri |-> 35]
StockNeci ==
  [warehouse |-> "Neci", year |-> Whole(2023), lot |-> "B", format |-> "5L",
   pezzi |-> Whole(2), litri |-> Whole(10)]
HistoryRoma ==
  [id |-> 1, warehouse |-> "Roma", operator |-> "Ada", type |-> "ingresso",
   year |-> Whole(2024), lot |-> "A", format |-> "500ml", pieces |-> Whole(7),
   liters |-> 35, notes |-> "cliente X"]
WarehouseAnswers == {Ok(<<>>), Ok(LedgerDepots), Failed("warehouses: failed")}
StockAnswers == {Ok(<<StockRoma>>), Ok(<<StockRoma, StockNeci>>), Failed("v_stock: failed")}
HistoryAnswers == {Ok(<<>>), Ok(<<HistoryRoma>>), Failed("v_history: failed")}
InsertAnswers == {"", "movements: rejected"}
PiecesTexts == {"", "3"}
FormTypes == {"Ingresso", "Uscita"}
MaxLedgerOps == 2

\* The queries of a step that resolved with an error.
FailedOf(named) == {n \in DOMAIN named : named[n].isNull}

LedgerEvent(op, failed) == [op |-> op, failed |-> failed]

LedgerInit ==
  /\ ledgerWarehouses = <<>>
  /\ stock = <<>>
  /\ history = <<>>
  /\ ledgerLoading = TRUE
  /\ submitting = FALSE
  /\ error = ""
  /\ success = ""
  /\ form = [warehouse_id |-> "", type |-> "Ingresso", year |-> CurrentYear,
             lot |-> "A", format |-> "500ml", pieces |-> Num(Whole(1)), notes |-> ""]
  /\ movements = <<>>
  /\ calls = {[id |-> 0, kind |-> "load", from |-> "effect"]}
  /\ timers = 0
  /\ event = LedgerEvent("none", {})

\* The page below the loading skeleton is rendered.
LedgerRendered == ~ledgerLoading

\* The user has operations left to make on the ledger page.
LedgerBudget == ops < MaxLedgerOps

\* The continuation of the load effect once its three queries have resolved.
load(c, w, s, h) ==
  /\ c \in calls /\ c.kind = "load"
  /\ calls' = calls \ {c}
  /\ IF w.isNull \/ s.isNull \/ h.isNull
     THEN /\ error' = (IF w.isNull THEN w.error ELSE IF s.isNull THEN s.error
                       ELSE h.error)
          /\ UNCHANGED <<ledgerWarehouses, stock, history, form>>
     ELSE /\ ledgerWarehouses' = OrEmpty(w)
          /\ stock' = OrEmpty(s)
          /\ history' = OrEmpty(h)
          /\ form' = IF Len(OrEmpty(w)) > 0 /\ form.warehouse_id = ""
                     THEN [form EXCEPT !.warehouse_id = w.data[1].id]
                     ELSE form
          /\ UNCHANGED error
  /\ ledgerLoading' = FALSE
  /\ event' = LedgerEvent("load", FailedOf([warehouses |-> w, v_stock |-> s,
                                            v_history |-> h]))
  /\ UNCHANGED <<submitting, success, movements, timers>>
  /\ UNCHANGED <<snapVars, probe, teamPage>>

\* refreshData up to its await: the "Aggiorna" button, or submitMovement after
\* its insert.
StartRefresh(inFlight, from) ==
  inFlight \cup {[id |-> nextId, kind |-> "refresh", from |-> from]}

refreshData ==
  /\ LedgerRendered
  /\ LedgerBudget
  /\ ops' = ops + 1
  /\ calls' = StartRefresh(calls, "click")
  /\ nextId' = nextId + 1
  /\ event' = LedgerEvent("refreshData", {})
  /\ UNCHANGED <<ledgerWarehouses, stock, history, ledgerLoading, submitting,
                 error, success, form, movements, timers>>
  /\ UNCHANGED <<warehouses, years, quantities, filterYear, search, store,
                 upserts, fetches, reader, userId, loading, last, probe, teamPage>>

\* A submitMovement without its finally: the refresh it awaited leaves
\* submitting as it was.
refreshDoneNoFinally(c, s, h) ==
  /\ c \in calls /\ c.kind = "refresh"
  /\ calls' = calls \ {c}
  /\ stock' = OrEmpty(s)
  /\ history' = OrEmpty(h)
  /\ IF c.from = "submit"
     THEN success' = "Movimento registrato!" /\ timers' = timers + 1
          /\ UNCHANGED submitting
     ELSE UNCHANGED <<success, timers, submitting>>
  /\ event' = LedgerEvent("refreshDone", FailedOf([v_stock |-> s, v_history |-> h]))
  /\ UNCHANGED <<ledgerWarehouses, ledgerLoading, error, form, movements>>
  /\ UNCHANGED <<snapVars, probe, teamPage>>

\* refreshData after its await, and, when submitMovement awaited it, the rest of
\* submitMovement's try block and its finally.
refreshDone(c, s, h) ==
  /\ c \in calls /\ c.kind = "refresh"
  /\ calls' = calls \ {c}
  /\ stock' = OrEmpty(s)
  /\ history' = OrEmpty(h)
  /\ IF c.from = "submit"
     THEN success' = "Movimento registrato!" /\ timers' = timers + 1
          /\ submitting' = FALSE
     ELSE UNCHANGED <<success, timers, submitting>>
  /\ event' = LedgerEvent("refreshDone", FailedOf([v_stock |-> s, v_history |-> h]))
  /\ UNCHANGED <<ledgerWarehouses, ledgerLoading, error, form, movements>>
  /\ UNCHANGED <<snapVars, probe, teamPage>>

\* setTimeout(() => setSuccess(null), 2000)
successTimeout ==
  /\ timers > 0
  /\ timers' = timers - 1
  /\ success' = ""
  /\ event' = LedgerEvent("successTimeout", {})
  /\ UNCHANGED <<ledgerWarehouses, stock, history, ledgerLoading, submitting,
                 error, form, movements, calls>>
  /\ UNCHANGED <<snapVars, probe, teamPage>>

SetForm(op, next) ==
  /\ LedgerRendered
  /\ LedgerBudget
  /\ ops' = ops + 1
  /\ form' = next
  /\ event' = LedgerEvent(op, {})
  /\ UNCHANGED <<ledgerWarehouses, stock, history, ledgerLoading, submitting,
                 error, success, movements, calls, timers>>
  /\ UNCHANGED <<warehouses, years, quantities, filterYear, search, store,
                 upserts, fetches, reader, userId, loading, nextId, last, probe, teamPage>>

setFormWarehouse(id) == SetForm("setFormWarehouse", [form EXCEPT !.warehouse_id = id])

setFormType(type) == SetForm("setFormType", [form EXCEPT !.type = type])

setFormPieces(text) == SetForm("setFormPieces", [form EXCEPT !.pieces = parseInt(text)])

\* A check that lets a movement of no pieces through.
PiecesNegative(pieces) == ~pieces.nan /\ pieces.v < 0

\* NaN <= 0 is false.
PiecesNotPositive(pieces) == ~pieces.nan /\ pieces.v <= 0

\* submitMovement up to its first await, or through its catch and finally when
\* a check throws.
submitMovement ==
  /\ LedgerRendered
  /\ ~submitting
  /\ LedgerBudget
  /\ ops' = ops + 1
  /\ success' = ""
  /\ event' = LedgerEvent("submitMovement", {})
  /\ IF form.warehouse_id = ""
     THEN error' = "Seleziona un magazzino" /\ UNCHANGED <<submitting, calls, nextId>>
     ELSE IF PiecesNotPositive(form.pieces)
     THEN error' = "Pezzi deve essere > 0" /\ UNCHANGED <<submitting, calls, nextId>>
     ELSE /\ error' = ""
          /\ submitting' = TRUE
          /\ calls' = calls \cup
               {[id |-> nextId, kind |-> "insert", from |-> "submit",
                 payload |-> [form EXCEPT
                    !.type = IF form.type = "Ingresso" THEN "ingresso" ELSE "uscita"]]}
          /\ nextId' = nextId + 1
  /\ UNCHANGED <<ledgerWarehouses, stock, history, ledgerLoading, form, movements,
                 timers>>
  /\ UNCHANGED <<warehouses, years, quantities, filterYear, search, store,
                 upserts, fetches, reader, userId, loading, last, probe, teamPage>>

\* submitMovement after the insert has resolved: with an error message, or with
\* none and the row in the table.
insertDone(c, message) ==
  /\ c \in calls /\ c.kind = "insert"
  /\ IF message # ""
     THEN /\ error' = message
          /\ submitting' = FALSE
          /\ calls' = calls \ {c}
          /\ UNCHANGED <<form, movements, nextId>>
     ELSE /\ movements' = Append(movements, c.payload)
          /\ form' = [form EXCEPT !.pieces = Num(Whole(1)), !.notes = ""]
          /\ calls' = StartRefresh(calls \ {c}, "submit")
          /\ nextId' = nextId + 1
          /\ UNCHANGED <<error, submitting>>
  /\ event' = LedgerEvent("insertDone", IF message # "" THEN {"movements"} ELSE {})
  /\ UNCHANGED <<ledgerWarehouses, stock, history, ledgerLoading, success, timers>>
  /\ UNCHANGED <<warehouses, years, quantities, filterYear, search, store,
                 upserts, fetches, reader, userId, loading, ops, last, probe, teamPage>>

LedgerNext ==
  \/ \E c \in calls, w \in WarehouseAnswers, s \in StockAnswers, h \in HistoryAnswers :
       load(c, w, s, h)
  \/ refreshData
  \/ \E c \in calls, s \in StockAnswers, h \in HistoryAnswers : refreshDone(c, s, h)
  \/ successTimeout
  \/ \E i \in 1..Len(ledgerWarehouses) : setFormWarehouse(ledgerWarehouses[i].id)
  \/ \E type \in FormTypes : setFormType(type)
  \/ \E text \in PiecesTexts : setFormPieces(text)
  \/ submitMovement
  \/ \E c \in calls, message \in InsertAnswers : insertDone(c, message)

\* ---------------------------------------------------------------- the key codec

MaxNameLen == 2
NameChars == <<"a", "Z", "9", " ", "-">>

RECURSIVE Names(_)
\* The texts of at most n characters of NameChars.
Names(n) ==
  IF n = 0 THEN {""}
  ELSE LET shorter == Names(n - 1) IN
       shorter \cup {s \o NameChars[i] : s \in shorter, i \in DOMAIN NameChars}

\* The ids addWarehouse gives to names, and the ids of the default warehouses.
SlugIds ==
  ({slugOf(name) : name \in Names(MaxNameLen) \cup WarehousePrompts} \ {""})
    \cup {DEFAULT_WAREHOUSES[i].id : i \in DOMAIN DEFAULT_WAREHOUSES}

WellFormed ==
  {ItemKey(Whole(y), lot, format, id) :
     y \in MinYear..MaxYear, lot \in Range(LOTS), format \in Range(FORMATS),
     id \in SlugIds}

NoProbe == [stage |-> "none", c |-> ItemKey(0, "", "", ""), key |-> "", parsed |-> Null]

encode ==
  /\ probe.stage = "coordinate"
  /\ probe' = [probe EXCEPT !.stage = "encoded", !.key = keyOf(probe.c)]
  /\ UNCHANGED <<snapVars, ledgerVars, teamPage>>

decode ==
  /\ probe.stage = "encoded"
  /\ probe' = [probe EXCEPT !.stage = "decoded", !.parsed = parseKey(probe.key)]
  /\ UNCHANGED <<snapVars, ledgerVars, teamPage>>

CodecNext == encode \/ decode

\* ---------------------------------------------------------------- stock view
\* The stock of the ledger page: the movements table, the view v_stock over it,
\* and the litres and totals the page computes. On this side pieces and litres
\* are held in thousandths, so that a bottle of 250 ml is a number.
Milli == 1000

\* A unit volume that takes the 5L can for a bottle of 500 ml.
volumeMlNoCan(fmt) == IF fmt = "500ml" THEN 500 ELSE IF fmt = "250ml" THEN 250 ELSE 500

\* (fmt === '500ml' ? 500 : fmt === '250ml' ? 250 : 5000)
volumeMl(fmt) == IF fmt = "500ml" THEN 500 ELSE IF fmt = "250ml" THEN 250 ELSE 5000

\* (pieces * volumeMl(format)) / 1000, for pieces in thousandths.
LitersOf(pieces, fmt) == (pieces * volumeMl(fmt)) \div 1000

\* litersPreview of a form; form.pieces is a number in tenths, or NaN.
litersPreview(f) ==
  IF f.pieces.nan THEN NaN
  ELSE Num(LitersOf((f.pieces.v * Milli) \div Radix, f.format))

\* The payload submitMovement inserts for a form.
Movement(type, pieces, fmt) ==
  [warehouse_id |-> "w1", type |-> type, year |-> CurrentYear, lot |-> "A",
   format |-> fmt, pieces |-> Num(Whole(pieces)), notes |-> ""]

\* The coordinate of a movement or of a stock row.
CoordOf(m) ==
  [warehouse_id |-> m.warehouse_id, year |-> m.year, lot |-> m.lot, format |-> m.format]

RECURSIVE SignedSum(_, _)
\* The pieces at coordinate c: ingresso counts up, uscita counts down.
SignedSum(log, c) ==
  IF log = <<>> THEN 0
  ELSE SignedSum(Tail(log), c)
       + (IF CoordOf(Head(log)) # c THEN 0
          ELSE IF Head(log).type = "ingresso" THEN (Head(log).pieces.v * Milli) \div Radix
          ELSE 0 - (Head(log).pieces.v * Milli) \div Radix)

RECURSIVE StockRowsOf(_, _)
\* One row per coordinate, the smaller formats first.
StockRowsOf(log, cs) ==
  IF cs = {} THEN <<>>
  ELSE LET c == CHOOSE x \in cs :
                  \A y \in cs : volumeMl(x.format) <= volumeMl(y.format)
       IN <<[warehouse_id |-> c.warehouse_id, year |-> c.year, lot |-> c.lot,
             format |-> c.format, pezzi |-> SignedSum(log, c),
             litri |-> LitersOf(SignedSum(log, c), c.format)]>>
          \o StockRowsOf(log, cs \ {c})

\* The view v_stock over the movements table.
v_stock(log) == StockRowsOf(log, {CoordOf(log[i]) : i \in 1..Len(log)})

RECURSIVE SumField(_, _)
\* rows.reduce((sum, r) => sum + (r[field] || 0), 0)
SumField(data, field) ==
  IF data = <<>> THEN 0
  ELSE (IF Head(data)[field] = 0 THEN 0 ELSE Head(data)[field])
       + SumField(Tail(data), field)

\* kpi over the stock rows, the four filters at "Tutti".
kpi(data) == [pezzi |-> SumField(data, "pezzi"), litri |-> SumField(data, "litri")]

\* The movements tables the view is read over: one or two movements of 3 or
\* 10 pieces at one warehouse, year and lot.
Logs ==
  LET ms == {Movement(type, pieces, fmt) :
               type \in {"ingresso", "uscita"}, pieces \in {3, 10},
               fmt \in Range(FORMATS)}
  IN {<<m>> : m \in ms} \cup {<<m, n>> : m, n \in ms}

\* supabase.from('v_stock').select('*') answers with the rows of the view.
selectStock ==
  /\ probe.stage = "movements"
  /\ probe' = [probe EXCEPT !.stage = "stock", !.stock = v_stock(probe.log)]
  /\ UNCHANGED <<snapVars, ledgerVars, teamPage>>

\* The page renders the totals of the rows it holds.
renderKpi ==
  /\ probe.stage = "stock"
  /\ probe' = [probe EXCEPT !.stage = "kpi", !.kpi = kpi(probe.stock)]
  /\ UNCHANGED <<snapVars, ledgerVars, teamPage>>

StockNext == selectStock \/ renderKpi

\* ---------------------------------------------------------------- ledger reports
\* The filtered tables of the ledger page and the CSV files made of them. A
\* column that is null is held as "": both filteredHistory and downloadCSV
\* read a null as ''.
HistoryNeci ==
  [id |-> 2, warehouse |-> "Neci", operator |-> "", type |-> "uscita",
   year |-> Whole(2023), lot |-> "B", format |-> "5L", pieces |-> Whole(1),
   liters |-> Whole(5), notes |-> "olio \"nuovo\""]

\* The stock and history rows the reports are made of.
ReportStock == <<StockRoma, StockNeci>>
ReportHistory == <<HistoryRoma, HistoryNeci>>

\* The five filter fields; 'Tutti' and '' are their values after construction.
FilterInputs ==
  [fWarehouse : {"Tutti", "Roma", "Neci"}, fYear : {"Tutti", "2024", "2023"},
   fLot : {"Tutti", "A", "B"}, fFormat : {"Tutti", "500ml", "5L"},
   search : {"", " ADA ", "nuovo", "zz"}]

\* The first four conjuncts of both filters.
RowMatches(r, f) ==
  /\ (f.fWarehouse = "Tutti" \/ r.warehouse = f.fWarehouse)
  /\ (f.fYear = "Tutti" \/ NumToStr(r.year) = f.fYear)
  /\ (f.fLot = "Tutti" \/ r.lot = f.fLot)
  /\ (f.fFormat = "Tutti" \/ r.format = f.fFormat)

\* A history filter that looks for the search text in the notes alone.
filteredHistoryNotesOnly(data, f) ==
  LET q == toLowerCase(trim(f.search))
      Keep(h) == RowMatches(h, f) /\ (q = "" \/ includes(toLowerCase(h.notes), q))
  IN SelectSeq(data, Keep)

filteredStock(data, f) ==
  LET Keep(r) == RowMatches(r, f) IN SelectSeq(data, Keep)

filteredHistory(data, f) ==
  LET q == toLowerCase(trim(f.search))
      Keep(h) == /\ RowMatches(h, f)
                 /\ \/ q = ""
                    \/ includes(toLowerCase(h.notes), q)
                    \/ includes(toLowerCase(h.operator), q)
  IN SelectSeq(data, Keep)

\* Object.keys of a stock row and of a history row, for the columns held here.
StockKeys == <<"warehouse", "year", "lot", "format", "pezzi", "litri">>
HistoryKeys ==
  <<"id", "warehouse", "operator", "type", "year", "lot", "format", "pieces",
    "liters", "notes">>

\* String(val) of the column h of row r: the numbers are in tenths, the id is
\* a whole number.
FieldText(r, h) ==
  IF h = "id" THEN NumToStr(Whole(r[h]))
  ELSE IF h \in {"year", "pezzi", "litri", "pieces", "liters"} THEN NumToStr(r[h])
  ELSE r[h]

\* headers.map(h => `"${String(val).replace(/"/g,'""')}"`).join(',')
DownloadLine(r, headers) ==
  join([i \in 1..Len(headers) |->
          "\"" \o DoubleQuotes(FieldText(r, headers[i])) \o "\""], ",")

\* The text downloadCSV puts into the blob; the lines are joined with '\\n',
\* which in the source is a backslash and an n.
downloadCSV(headers, data) ==
  join(<<join(headers, ",")>> \o [i \in 1..Len(data) |-> DownloadLine(data[i], headers)],
       "\\n")

\* The two memos are computed for the filters.
renderFiltered ==
  /\ probe.stage = "filters"
  /\ probe' = [probe EXCEPT !.stage = "filtered",
                            !.stock = filteredStock(ReportStock, probe.f),
                            !.history = filteredHistory(ReportHistory, probe.f)]
  /\ UNCHANGED <<snapVars, ledgerVars, teamPage>>

\* The "CSV" button of the stock table.
downloadStock ==
  /\ probe.stage = "filtered"
  /\ Len(probe.stock) > 0
  /\ probe' = [probe EXCEPT !.stage = "giacenze",
                            !.csv = downloadCSV(StockKeys, probe.stock)]
  /\ UNCHANGED <<snapVars, ledgerVars, teamPage>>

\* The "CSV" button of the history table.
downloadHistory ==
  /\ probe.stage = "filtered"
  /\ Len(probe.history) > 0
  /\ probe' = [probe EXCEPT !.stage = "storico",
                            !.csv = downloadCSV(HistoryKeys, probe.history)]
  /\ UNCHANGED <<snapVars, ledgerVars, teamPage>>

ReportNext == renderFiltered \/ downloadStock \/ downloadHistory

\* ---------------------------------------------------------------- team page
\* The team-scoped page: sign-in, memberships, team selection, createTeam and
\* the inventory load of the selected team. "" stands for null.
MaxTeamOps == 2

TeamUno == [id |-> "t1", name |-> "Uno", role |-> "owner"]
TeamDue == [id |-> "t2", name |-> "Due", role |-> "viewer"]

\* The rows of the inventory table with team_id = id, as the select orders them.
TeamRows(id) ==
  IF id = "t1"
  THEN <<[k |-> ItemKey(Whole(2024), "A", "500ml", "roma"), qty |-> Whole(10)]>>
  ELSE IF id = "t2"
  THEN <<[k |-> ItemKey(Whole(2023), "B", "5L", "neci"), qty |-> Whole(2)]>>
  ELSE <<>>

\* What localStorage holds under STORAGE_TEAM when the page is opened.
SavedTeams == {"", "t2", "t9"}
\* What the user types into the prompt of createTeam.
TeamNames == {"", "Tre"}

\* The state after construction, with the memberships of the one user on the
\* server.
TeamConstructed(saved) ==
  [userId |-> "", loadingAuth |-> TRUE, teams |-> <<>>, teamId |-> "",
   loadingTeams |-> TRUE, quantities |-> <<>>, years |-> <<CurrentYear>>,
   loadingInventory |-> FALSE, saved |-> saved, members |-> <<TeamUno, TeamDue>>,
   calls |-> {[id |-> 0, kind |-> "getUser", userId |-> "", teamId |-> ""]},
   nextId |-> 1, ops |-> 0, op |-> "none", fetchFailed |-> FALSE]

\* A call is started by state n.
TeamCall(n, kind, id) ==
  [n EXCEPT !.calls = @ \cup {[id |-> n.nextId, kind |-> kind, userId |-> n.userId,
                               teamId |-> id]},
            !.nextId = @ + 1]

\* The memberships effect, after a render in which userId changed.
MembershipsEffect(old, n) ==
  IF n.userId # old.userId /\ n.userId # ""
  THEN TeamCall([n EXCEPT !.loadingTeams = TRUE], "memberships", "")
  ELSE n

\* The inventory effect, after a render in which userId or teamId changed.
InventoryEffect(old, n) ==
  IF (n.userId # old.userId \/ n.teamId # old.teamId) /\ n.userId # "" /\ n.teamId # ""
  THEN TeamCall([n EXCEPT !.loadingInventory = TRUE], "inventory", n.teamId)
  ELSE n

\* The state after the render that follows the state updates old -> n.
AfterRender(old, n) == InventoryEffect(old, MembershipsEffect(old, n))

\* The page below the loading and sign-in screens is rendered.
TeamRendered ==
  ~teamPage.loadingAuth /\ teamPage.userId # "" /\ ~teamPage.loadingTeams

TeamStep(n) ==
  /\ teamPage' = n
  /\ UNCHANGED <<snapVars, ledgerVars, probe>>

\* supabase.auth.getUser() resolves.
teamGetUser(c, user) ==
  /\ c \in teamPage.calls /\ c.kind = "getUser"
  /\ TeamStep(AfterRender(teamPage,
       [teamPage EXCEPT !.userId = user, !.loadingAuth = FALSE,
                        !.calls = @ \ {c}, !.op = "getUser"]))

\* onAuthStateChange: a sign-in or a sign-out.
teamAuthChange(user) ==
  /\ user # teamPage.userId
  /\ teamPage.ops < MaxTeamOps
  /\ TeamStep(AfterRender(teamPage,
       [teamPage EXCEPT !.userId = user, !.ops = @ + 1, !.op = "onAuthStateChange"]))

\* The team restored from localStorage, or the first team, or none.
PickTeam(mapped, saved) ==
  IF \E i \in 1..Len(mapped) : mapped[i].id = saved THEN saved
  ELSE IF mapped # <<>> THEN mapped[1].id
  ELSE ""

\* The memberships a load took from localStorage and the fetched teams.
Picked(c, mapped, pick) ==
  [teamPage EXCEPT !.teams = mapped, !.teamId = pick,
                   !.saved = IF pick # "" THEN pick ELSE @,
                   !.loadingTeams = FALSE, !.calls = @ \ {c},
                   !.op = "membershipsDone"]

\* The select on team_members of the memberships effect resolves.
membershipsDone(c, failed) ==
  /\ c \in teamPage.calls /\ c.kind = "memberships"
  /\ TeamStep(AfterRender(teamPage,
       IF failed
       THEN [teamPage EXCEPT !.teams = <<>>, !.loadingTeams = FALSE,
                             !.calls = @ \ {c}, !.op = "membershipsFailed"]
       ELSE Picked(c, teamPage.members, PickTeam(teamPage.members, teamPage.saved))))

onSelectTeam(id) ==
  /\ TeamRendered
  /\ teamPage.ops < MaxTeamOps
  /\ \E i \in 1..Len(teamPage.teams) : teamPage.teams[i].id = id
  /\ TeamStep(AfterRender(teamPage,
       [teamPage EXCEPT !.teamId = id, !.saved = id, !.ops = @ + 1,
                        !.op = "onSelectTeam"]))

\* createTeam up to its first await; name is what prompt returned. Until the
\* server has given the team its id, the call carries the name in its place.
createTeam(name) ==
  /\ TeamRendered
  /\ teamPage.ops < MaxTeamOps
  /\ TeamStep(IF name = ""
              THEN [teamPage EXCEPT !.ops = @ + 1, !.op = "createTeam"]
              ELSE TeamCall([teamPage EXCEPT !.ops = @ + 1, !.op = "createTeam"],
                            "createTeam", name))

\* The id the server gives to the next team.
NewTeamId == "t" \o NatToStr(Len(teamPage.members) + 1)

\* The two inserts of createTeam resolve: one of them with an error (an
\* alert), or both without, and then the memberships are selected again.
createTeamInserted(c, failed) ==
  /\ c \in teamPage.calls /\ c.kind = "createTeam"
  /\ TeamStep(
       IF failed
       THEN [teamPage EXCEPT !.calls = @ \ {c}, !.op = "createTeamFailed"]
       ELSE [teamPage EXCEPT
               !.members = Append(@, [id |-> NewTeamId, name |-> c.teamId,
                                      role |-> "owner"]),
               !.calls = (@ \ {c}) \cup {[c EXCEPT !.kind = "createTeamList",
                                                   !.teamId = NewTeamId]},
               !.op = "createTeamInserted"])

\* The select on team_members of createTeam resolves.
createTeamListed(c, failed) ==
  /\ c \in teamPage.calls /\ c.kind = "createTeamList"
  /\ TeamStep(AfterRender(teamPage,
       IF failed
       THEN [teamPage EXCEPT !.calls = @ \ {c}, !.op = "createTeamListFailed"]
       ELSE [teamPage EXCEPT !.teams = teamPage.members, !.teamId = c.teamId,
                             !.saved = c.teamId, !.calls = @ \ {c},
                             !.op = "createTeamListed"]))

\* The rows of a team hydrated into the page.
TeamHydrated(c, got) ==
  [teamPage EXCEPT !.quantities = got.next,
                   !.years = IF got.nextYears # {} THEN SortDesc(got.nextYears) ELSE @,
                   !.loadingInventory = FALSE, !.calls = @ \ {c},
                   !.op = "inventoryDone"]

\* The select on inventory of the inventory effect resolves, for the team the
\* effect was started with.
inventoryDone(c, failed) ==
  /\ c \in teamPage.calls /\ c.kind = "inventory"
  /\ TeamStep(
       IF failed
       THEN [teamPage EXCEPT !.loadingInventory = FALSE, !.calls = @ \ {c},
                             !.fetchFailed = TRUE, !.op = "inventoryFailed"]
       ELSE TeamHydrated(c, HydrateLoop([next |-> <<>>, nextYears |-> {}],
                                        TeamRows(c.teamId))))

TeamNext ==
  \/ \E c \in teamPage.calls, user \in Users \cup {""} : teamGetUser(c, user)
  \/ \E user \in Users \cup {""} : teamAuthChange(user)
  \/ \E c \in teamPage.calls, failed \in BOOLEAN : membershipsDone(c, failed)
  \/ \E id \in {"t1", "t2", "t3"} : onSelectTeam(id)
  \/ \E name \in TeamNames : createTeam(name)
  \/ \E c \in teamPage.calls, failed \in BOOLEAN : createTeamInserted(c, failed)
  \/ \E c \in teamPage.calls, failed \in BOOLEAN : createTeamListed(c, failed)
  \/ \E c \in teamPage.calls, failed \in BOOLEAN : inventoryDone(c, failed)

\* ---------------------------------------------------------------- specifications

Init == SnapshotInit /\ LedgerInit /\ probe = NoProbe /\ teamPage = TeamConstructed("")

CodecInit ==
  /\ SnapshotInit
  /\ LedgerInit
  /\ teamPage = TeamConstructed("")
  /\ \E c \in WellFormed : probe = [NoProbe EXCEPT !.stage = "coordinate", !.c = c]

Spec == Init /\ [][Next]_vars

LedgerSpec == Init /\ [][LedgerNext]_vars

CodecSpec == CodecInit /\ [][CodecNext]_vars

StockInit ==
  /\ SnapshotInit
  /\ LedgerInit
  /\ teamPage = TeamConstructed("")
  /\ \E log \in Logs :
       probe = [stage |-> "movements", log |-> log, stock |-> <<>>,
                kpi |-> [pezzi |-> 0, litri |-> 0]]

StockSpec == StockInit /\ [][StockNext]_vars

ReportInit ==
  /\ SnapshotInit
  /\ LedgerInit
  /\ teamPage = TeamConstructed("")
  /\ \E f \in FilterInputs :
       probe = [stage |-> "filters", f |-> f, stock |-> <<>>, history |-> <<>>,
                csv |-> ""]

ReportSpec == ReportInit /\ [][ReportNext]_vars

TeamInit ==
  /\ SnapshotInit
  /\ LedgerInit
  /\ probe = NoProbe
  /\ \E saved \in SavedTeams : teamPage = TeamConstructed(saved)

TeamSpec == TeamInit /\ [][TeamNext]_vars

\* ---------------------------------------------------------------- properties

YearFilters == {All} \cup {OneYear(y) : y \in Range(years)}

RECURSIVE SumRowTotals(_, _)
SumRowTotals(rs, whs) ==
  IF rs = <<>> THEN 0 ELSE rowTotal(Head(rs), whs) + SumRowTotals(Tail(rs), whs)

\* C1: for every year filter and an empty search, the row totals of the grid add
\* up to the grand total of the footer.
C1_RowTotalsEqualGrandTotal ==
  \A fy \in YearFilters :
    Num(SumRowTotals(rows(years, warehouses, quantities, fy, ""), warehouses))
      = grandTotal(grandTotals(quantities, warehouses, fy))

\* C2: after setQty(c, v) the snapshot holds max(0, floor(v)) at c: 0 for a
\* negative v, and otherwise the whole number g with g <= v < g + 1.
C2_SetThenGet ==
  last.op = "setQty" =>
    LET g == Get(quantities, last.key) IN
    /\ Has(quantities, last.key)
    /\ g % Radix = 0
    /\ last.v < 0 => g = 0
    /\ last.v >= 0 => (g <= last.v /\ last.v < g + Whole(1))

\* A cell holding 10 was set to -5 and holds 0.
C2_Witness ==
  /\ last.op = "setQty" /\ last.v = -Whole(5) /\ last.before = Whole(10)
  /\ Get(quantities, last.key) = 0

\* C3: the key of a well-formed coordinate (a year of 2000..2100, a lot, a
\* format, a non-empty warehouse id of the slug rule) decodes to the coordinate,
\* field by field.
C3_KeyRoundTrip ==
  probe.stage = "decoded" =>
    /\ probe.parsed.ok
    /\ probe.parsed.k.year = probe.c.year
    /\ probe.parsed.k.lot = probe.c.lot
    /\ probe.parsed.k.format = probe.c.format
    /\ probe.parsed.k.warehouseId = probe.c.warehouseId

\* The key 2100_C_5L_bari-sud was decoded.
C3_Witness ==
  /\ probe.stage = "decoded"
  /\ probe.c = ItemKey(Whole(MaxYear), "C", "5L", "bari-sud")
  /\ probe.key = "2100_C_5L_bari-sud"
  /\ probe.parsed.ok /\ probe.parsed.k.warehouseId = "bari-sud"

\* C4: setQty's value is in the snapshot while its upsert is still in flight, and
\* a failed upsert (persistQty's or importCSV's batch) is reported and leaves
\* the snapshot as it is.
C4_OptimisticNoRollback ==
  [][ /\ (last'.op \in {"setQty", "adjust"} /\ nextId' # nextId) =>
          \E u \in upserts' \ upserts :
            /\ keyOf(u.rows[1].k) = last'.key
            /\ Get(quantities', last'.key) = u.rows[1].qty
            /\ store' = store
      /\ (last'.op = "upsertError" /\ upserts' # upserts) =>
            /\ quantities' = quantities /\ store' = store
            /\ last'.msg \in {"alert: Errore importazione",
                               "console.error: Errore upsert"}
    ]_vars

\* The batch upsert of an import failed; the imported 7 is still in the
\* snapshot while the table holds 10.
C4_Witness ==
  /\ last.op = "upsertError" /\ last.msg = "alert: Errore importazione"
  /\ Get(quantities, "2024_A_500ml_roma") = Whole(7)
  /\ store = InitStore

\* C5: a load or a refresh of the ledger page one of whose queries fails leaves
\* the stock and history rows as they were.
C5_FailedFetchKeepsState ==
  [][ (event'.op \in {"load", "refreshDone"} /\ calls' # calls /\ event'.failed # {})
        => (stock' = stock /\ history' = history)
    ]_vars

\* C6: adjust(c, +1) directly followed by adjust(c, -1) leaves the cell at the
\* value it had before the two; adjust(c, -1) on a cell holding 0 leaves it at 0.
C6_AdjustUpDown ==
  [][ (last'.op = "adjust" /\ nextId' # nextId /\ last'.v = -Whole(1)) =>
        /\ (last.op = "adjust" /\ last.v = Whole(1) /\ last.key = last'.key)
             => Get(quantities', last'.key) = last.before
        /\ last'.before = 0 => Get(quantities', last'.key) = 0
    ]_vars

\* A cell went from 10 to 11 and back to 10.
C6_Witness ==
  /\ last.op = "adjust" /\ last.v = -Whole(1) /\ last.before = Whole(11)
  /\ Get(quantities, last.key) = Whole(10)

NoCsvSpecial(q) ==
  \A i \in 1..Len(q) :
    ~HasChar(q[i].k, ",") /\ ~HasChar(q[i].k, "\"") /\ ~HasChar(q[i].k, "\n")

\* C8: importing the text exportCSV makes of the snapshot into an empty snapshot
\* gives the snapshot back, when no field holds a comma, a quote or a newline.
C8_CsvRoundTrip ==
  NoCsvSpecial(quantities) =>
    LET back == ImportParse(exportCSV(quantities), <<>>, <<>>) IN
    ~back.threw /\ Range(back.next) = Range(quantities)

\* The trimmed cells of the header line.
HeaderCells(text) ==
  LET hs == split(Head(SplitLines(text)), ",") IN [i \in 1..Len(hs) |-> trim(hs[i])]

HeaderComplete(text) ==
  /\ SplitLines(text) # <<>>
  /\ \A name \in Range(CsvHeaders) : name \in Range(HeaderCells(text))

\* The text of a number: an optional sign, digits with at most one point, at
\* least one digit; or nothing but white space.
LooksNumeric(str) ==
  LET t == trim(str)
      u == IF t # "" /\ Head(t) \in {"-", "+"} THEN Tail(t) ELSE t
  IN \/ t = ""
     \/ /\ \A i \in 1..Len(u) : IsDigit(CharAt(u, i)) \/ CharAt(u, i) = "."
        /\ Cardinality({i \in 1..Len(u) : CharAt(u, i) = "."}) <= 1
        /\ \E i \in 1..Len(u) : IsDigit(CharAt(u, i))

\* The records the data lines of text stand for, line by line: none for a line
\* that fails validation (too few cells, an empty lot, format or warehouse, a
\* year or qty that is no number, the year 0), the line's record otherwise.
ExpectedRecords(text) ==
  LET cols == HeaderCells(text)
      Pos(name) == CHOOSE i \in 1..Len(cols) :
                     cols[i] = name /\ \A j \in 1..(i - 1) : cols[j] # name
      data == Tail(SplitLines(text))
      Fails(cells) ==
        \/ \E name \in Range(CsvHeaders) : Pos(name) > Len(cells)
        \/ \E name \in {"lot", "format", "warehouse"} : cells[Pos(name)] = ""
        \/ ~LooksNumeric(cells[Pos("year")])
        \/ ~LooksNumeric(cells[Pos("qty")])
        \/ StrToNum(cells[Pos("year")]).v = 0
      Rec(cells) ==
        LET qty == StrToNum(cells[Pos("qty")]).v IN
        [k |-> ItemKey(StrToNum(cells[Pos("year")]).v, cells[Pos("lot")],
                       cells[Pos("format")], cells[Pos("warehouse")]),
         qty |-> IF qty < 0 THEN 0 ELSE qty - (qty % Radix)]
      RECURSIVE Recs(_)
      Recs(ls) ==
        IF ls = <<>> THEN <<>>
        ELSE LET cells == split(Head(ls), ",") IN
             (IF Fails(cells) THEN <<>> ELSE <<Rec(cells)>>) \o Recs(Tail(ls))
  IN Recs(data)

\* C9: with a complete header, onload does not end in its catch block, the rows
\* it accepts are exactly the lines that pass validation, in their order, and
\* they are what it writes to the snapshot and upserts.
C9_SkipsInvalidRows ==
  [][ \A r \in reader \ reader' :
        HeaderComplete(r.text) =>
          LET exp == ExpectedRecords(r.text) IN
          /\ last'.msg # "alert: Errore importazione"
          /\ exp = <<>> => upserts' = upserts
          /\ exp # <<>> => \E u \in upserts' \ upserts : u.rows = exp
          /\ Keys(quantities') =
               Keys(r.quantities) \cup {keyOf(exp[i].k) : i \in 1..Len(exp)}
          /\ \A i \in 1..Len(exp) :
               (\A j \in (i + 1)..Len(exp) : exp[j].k # exp[i].k)
                 => Get(quantities', keyOf(exp[i].k)) = exp[i].qty
    ]_vars

\* The scenario file was imported: its one valid row is in the snapshot and in
\* the upsert in flight, the line "bad,row" is in neither.
C9_Witness ==
  /\ last.op = "onload" /\ last.text = ScenarioCsv /\ last.msg = ""
  /\ Get(quantities, "2024_A_500ml_roma") = Whole(7)
  /\ \E u \in upserts : u.batch /\ Len(u.rows) = 1

\* C10: with an incomplete header, onload changes neither the snapshot nor the
\* year list, issues no upsert, and reports the failure.
C10_MissingColumnAborts ==
  [][ \A r \in reader \ reader' :
        ~HeaderComplete(r.text) =>
          /\ quantities' = quantities /\ years' = years
          /\ upserts' = upserts /\ store' = store
          /\ last'.msg = "alert: Errore importazione"
    ]_vars

\* A file without the qty column was read and refused.
C10_Witness ==
  /\ last.op = "onload" /\ last.text = NoQtyColumnCsv
  /\ last.msg = "alert: Errore importazione"
  /\ ~Has(quantities, "2024_A_500ml_roma") \/ Get(quantities, "2024_A_500ml_roma") # Whole(7)

RECURSIVE SumAt(_, _)
\* The sum of the quantities at the positions I of the snapshot q.
SumAt(q, I) ==
  IF I = {} THEN 0
  ELSE LET i == CHOOSE x \in I : TRUE IN q[i].v + SumAt(q, I \ {i})

\* The positions of the snapshot whose key decodes to warehouse id and to a year
\* the filter fy lets through.
PositionsOf(q, id, fy) ==
  {i \in 1..Len(q) :
     /\ parseKey(q[i].k).ok
     /\ parseKey(q[i].k).k.warehouseId = id
     /\ fy.all \/ parseKey(q[i].k).k.year = fy.year}

\* C11: for every year filter, the totals map has an entry for every displayed
\* warehouse: the sum of the quantities of the snapshot whose key decodes to
\* that warehouse and to a year the filter lets through (0 when there is none).
C11_PerWarehouseTotals ==
  \A fy \in YearFilters :
    LET byWarehouse == grandTotals(quantities, warehouses, fy) IN
    \A j \in 1..Len(warehouses) :
      /\ warehouses[j].id \in DOMAIN byWarehouse
      /\ byWarehouse[warehouses[j].id]
           = Num(SumAt(quantities, PositionsOf(quantities, warehouses[j].id, fy)))

\* Warehouses roma and neci, one cell of 4 in roma: the totals are
\* {roma: 4, neci: 0} and the grand total is 4.
C11_Witness ==
  /\ warehouses = DEFAULT_WAREHOUSES
  /\ quantities = <<[k |-> "2025_A_500ml_roma", v |-> Whole(4)]>>
  /\ grandTotals(quantities, warehouses, All) = [id \in {"roma", "neci"} |->
        IF id = "roma" THEN Num(Whole(4)) ELSE Num(0)]
  /\ grandTotal(grandTotals(quantities, warehouses, All)) = Num(Whole(4))

\* C12: before filtering the grid has one row for every year, lot and format,
\* |years| x 3 x 3 rows, and every row has one cell for every displayed
\* warehouse, |years| x 3 x 3 x |warehouses| cells in all.
C12_RowCount ==
  LET grid == makeRows(years, warehouses, quantities) IN
  /\ Len(grid) = Len(years) * Len(LOTS) * Len(FORMATS)
  /\ \A i \in 1..Len(grid) : Cardinality(DOMAIN grid[i].totals) = Len(warehouses)

\* C12 as stated: before filtering the number of rows is
\* |years| x 3 x 3 x |warehouses|.
C12_RowCountTimesWarehouses ==
  Len(makeRows(years, warehouses, quantities))
    = Len(years) * Len(LOTS) * Len(FORMATS) * Len(warehouses)

\* Three years and two warehouses: 27 rows of two cells.
C12_Witness ==
  /\ Len(years) = 3 /\ Len(warehouses) = 2
  /\ Len(makeRows(years, warehouses, quantities)) = 27

\* The place of x in the sequence f.
PlaceIn(f, x) == CHOOSE i \in DOMAIN f : f[i] = x

\* Row a comes before row b: a later year, or the same year and an earlier lot
\* of LOTS, or the same year and lot and an earlier format of FORMATS.
RowBefore(a, b) ==
  \/ a.year > b.year
  \/ a.year = b.year /\ PlaceIn(LOTS, a.lot) < PlaceIn(LOTS, b.lot)
  \/ /\ a.year = b.year /\ a.lot = b.lot
     /\ PlaceIn(FORMATS, a.format) < PlaceIn(FORMATS, b.format)

RowsOrdered(rs) == \A i, j \in 1..Len(rs) : i < j => RowBefore(rs[i], rs[j])

\* C13: the grid rows, unfiltered and as filtered by the year filter and the
\* search text, come with years descending, within a year lots in the order of
\* LOTS, within a lot formats in the order of FORMATS; every filtered row is a
\* row of the unfiltered grid.
C13_RowOrder ==
  LET grid == makeRows(years, warehouses, quantities)
      shown == rows(years, warehouses, quantities, filterYear, search)
  IN RowsOrdered(grid) /\ RowsOrdered(shown) /\ Range(shown) \subseteq Range(grid)

\* Years 2023 and 2025 were imported in that order onto 2024; the search " 5l "
\* leaves the nine 5L rows, 2025 first and 2023 last.
C13_Witness ==
  /\ years = <<Whole(2025), Whole(2024), Whole(2023)>>
  /\ search = " 5l "
  /\ Len(rows(years, warehouses, quantities, filterYear, search)) = 9
  /\ rows(years, warehouses, quantities, filterYear, search)[1].year = Whole(2025)
  /\ rows(years, warehouses, quantities, filterYear, search)[9].year = Whole(2023)
  /\ Len(makeRows(years, warehouses, quantities)) = 27

\* sub is t from just after its first i characters up to its j-th.
IsSubstring(sub, t) ==
  \E i \in 0..Len(t) : \E j \in i..Len(t) : SubSeq(t, i + 1, j) = sub

\* C14: a row of the grid is in the filtered result if and only if the year
\* filter is "all" or the row's year, and the trimmed, lower-cased search text
\* is empty or a substring of the row's year as text, lower-cased lot or
\* lower-cased format.
C14_FilterIff ==
  LET shown == Range(rows(years, warehouses, quantities, filterYear, search))
      needle == toLowerCase(trim(search))
  IN \A r \in Range(makeRows(years, warehouses, quantities)) :
       (r \in shown)
         <=> /\ filterYear.all \/ r.year = filterYear.year
             /\ \/ needle = ""
                \/ IsSubstring(needle, NumToStr(r.year))
                \/ IsSubstring(needle, toLowerCase(r.lot))
                \/ IsSubstring(needle, toLowerCase(r.format))

\* Three years and the search "24": the nine rows of 2024 are left of 27, none
\* of them by its lot or format.
C14_Witness ==
  /\ years = <<Whole(2025), Whole(2024), Whole(2023)>>
  /\ search = "24" /\ filterYear = All
  /\ Len(makeRows(years, warehouses, quantities)) = 27
  /\ Len(rows(years, warehouses, quantities, filterYear, search)) = 9
  /\ \A i \in 1..9 :
       rows(years, warehouses, quantities, filterYear, search)[i].year = Whole(2024)

\* The ids of the displayed warehouses, in their order.
IdsOf(whs) == [i \in 1..Len(whs) |-> whs[i].id]

\* C15: a deleteWarehouse step leaves the quantities map, the year list, the
\* table and the writes in flight as they are; confirmed, it takes the warehouse
\* (and nothing else) off the displayed list, and cancelled it leaves the list.
C15_DeleteWarehouseFrame ==
  [][ (last'.op = "deleteWarehouse" /\ ops' # ops) =>
        /\ quantities' = quantities /\ years' = years
        /\ store' = store /\ upserts' = upserts /\ fetches' = fetches
        /\ last'.text = "confirm: ok" =>
             /\ last'.key \notin Range(IdsOf(warehouses'))
             /\ \A i \in 1..Len(warehouses) :
                  warehouses[i].id # last'.key => warehouses[i] \in Range(warehouses')
             /\ Len(warehouses') = Len(warehouses) - 1
        /\ last'.text = "confirm: cancel" => warehouses' = warehouses
    ]_vars

\* roma was deleted; its quantity of 10 is still in the snapshot and in the
\* table, and nothing is in flight.
C15_Witness ==
  /\ last.op = "deleteWarehouse" /\ last.key = "roma" /\ last.text = "confirm: ok"
  /\ IdsOf(warehouses) = <<"neci">>
  /\ Get(quantities, "2024_A_500ml_roma") = Whole(10)
  /\ store = InitStore /\ upserts = {}

\* C16: a year on the year list, other than the year the page is constructed
\* with, is still on the list after every step.
C16_YearsNeverPruned ==
  [][ (Range(years) \ {CurrentYear}) \subseteq Range(years') ]_vars

\* The years of the rows of a table.
YearsOf(st) == {k.year : k \in DOMAIN st}

\* The map holds one entry per row of the table, with the row's quantity, and
\* no other entry.
ExactlyFetched(q, st) ==
  /\ Len(q) = Cardinality(DOMAIN st)
  /\ \A k \in DOMAIN st : Has(q, keyOf(k)) /\ Get(q, keyOf(k)) = st[k]
  /\ \A i \in 1..Len(q) : \E k \in DOMAIN st : q[i].k = keyOf(k) /\ q[i].v = st[k]

\* C17: a successful hydrate leaves exactly the fetched rows in the map; it
\* sets the year list to the years of the fetched rows, newest first, when at
\* least one row was fetched, and leaves the year list alone when none was.
C17_HydrateReplaces ==
  [][ (last'.op = "fetchDone" /\ fetches' # fetches) =>
        /\ ExactlyFetched(quantities', store)
        /\ ~loading'
        /\ IF DOMAIN store # {}
           THEN /\ Range(years') = YearsOf(store)
                /\ \A i, j \in 1..Len(years') : i < j => years'[i] > years'[j]
           ELSE years' = years
    ]_vars

\* C17 as stated: the year list is the years of the fetched rows after every
\* successful hydrate, the one that fetched no row included.
C17_HydrateSetsYearsAlways ==
  [][ (last'.op = "fetchDone" /\ fetches' # fetches) =>
        /\ ExactlyFetched(quantities', store)
        /\ Range(years') = YearsOf(store)
    ]_vars

\* The hydrate ran over a map that held an edited 2025 cell whose write is
\* still in flight: the cell is gone, the one fetched row is the map, and the
\* year list is 2024 alone.
C17_Witness ==
  /\ last.op = "fetchDone"
  /\ \E u \in upserts : u.rows[1].k = ItemKey(CurrentYear, "A", "500ml", "roma")
  /\ store = InitStore
  /\ quantities = <<[k |-> "2024_A_500ml_roma", v |-> Whole(10)]>>
  /\ years = <<Whole(2024)>>

\* The form of the ledger page names no warehouse, or a number of pieces that
\* is zero or less.
FormRejected == form.warehouse_id = "" \/ (~form.pieces.nan /\ form.pieces.v <= 0)

\* C18: a submitMovement step on a form with no warehouse or with pieces <= 0
\* starts no insert and no refresh, leaves the movements table, the stock and
\* history rows and the form as they are, sets an error message and leaves the
\* submit button enabled.
C18_RejectedBeforeIO ==
  [][ (event'.op = "submitMovement" /\ ops' # ops /\ FormRejected) =>
        /\ calls' = calls /\ movements' = movements
        /\ stock' = stock /\ history' = history /\ form' = form
        /\ error' = (IF form.warehouse_id = "" THEN "Seleziona un magazzino"
                     ELSE "Pezzi deve essere > 0")
        /\ ~submitting' /\ success' = ""
    ]_vars

\* A warehouse is selected, the pieces field was emptied (0 pieces), and the
\* submit was rejected: nothing is in flight, nothing was inserted, and the
\* loaded stock row is still shown.
C18_Witness ==
  /\ event.op = "submitMovement"
  /\ form.warehouse_id = "w1" /\ form.pieces = Num(0)
  /\ error = "Pezzi deve essere > 0"
  /\ calls = {} /\ movements = <<>> /\ stock = <<StockRoma>> /\ ~submitting

\* No warehouse could be selected (none was loaded), and the submit was
\* rejected for it.
C18_WitnessNoWarehouse ==
  /\ event.op = "submitMovement"
  /\ form.warehouse_id = "" /\ form.pieces = Num(Whole(1))
  /\ error = "Seleziona un magazzino"
  /\ calls = {} /\ movements = <<>>

\* The unit volumes in millilitres.
UnitVolume == [f \in {"500ml", "250ml", "5L"} |->
                 IF f = "500ml" THEN 500 ELSE IF f = "250ml" THEN 250 ELSE 5000]

RECURSIVE SumSeq(_)
\* The sum of a sequence of numbers.
SumSeq(ns) == IF ns = <<>> THEN 0 ELSE Head(ns) + SumSeq(Tail(ns))

\* The pieces movement m adds to coordinate c, in thousandths.
SignedPieces(m, c) ==
  IF CoordOf(m) # c THEN 0
  ELSE (IF m.type = "ingresso" THEN 1 ELSE -1) * ((m.pieces.v * Milli) \div Radix)

\* Ten pieces in, then three pieces out, of the 500ml bottle at one coordinate.
TenInThreeOut == <<Movement("ingresso", 10, "500ml"), Movement("uscita", 3, "500ml")>>

\* C19: the litres of a quantity are pieces x unit volume / 1000, the unit
\* volume being 500, 250 and 5000 ml: for the form of every movement
\* (litersPreview), for every row of the stock view, and in the totals of the
\* page; the stock view holds one row per coordinate of the movements, and ten
\* pieces in and three out of the 500ml bottle leave 7 pieces and 3.5 litres.
C19_LitersOfPieces ==
  LET log == probe.log
      data == probe.stock
  IN
  /\ \A i \in 1..Len(log) :
       /\ ~litersPreview(log[i]).nan
       /\ litersPreview(log[i]).v * 1000
            = ((log[i].pieces.v * Milli) \div Radix) * UnitVolume[log[i].format]
  /\ probe.stage \in {"stock", "kpi"} =>
       /\ \A i \in 1..Len(log) : \E j \in 1..Len(data) : CoordOf(data[j]) = CoordOf(log[i])
       /\ \A j, k \in 1..Len(data) : CoordOf(data[j]) = CoordOf(data[k]) => j = k
       /\ \A j \in 1..Len(data) :
            /\ \E i \in 1..Len(log) : CoordOf(data[j]) = CoordOf(log[i])
            /\ data[j].pezzi
                 = SumSeq([i \in 1..Len(log) |-> SignedPieces(log[i], CoordOf(data[j]))])
            /\ data[j].litri * 1000 = data[j].pezzi * UnitVolume[data[j].format]
       /\ log = TenInThreeOut => Len(data) = 1 /\ data[1].pezzi = 7 * Milli
                                 /\ data[1].litri = 3500
  /\ probe.stage = "kpi" =>
       /\ probe.kpi.litri * 1000
            = SumSeq([j \in 1..Len(data) |-> data[j].pezzi * UnitVolume[data[j].format]])
       /\ log = TenInThreeOut => probe.kpi = [pezzi |-> 7 * Milli, litri |-> 3500]

\* Ten in and three out were read through the view and totalled: 7 pieces,
\* 3.5 litres.
C19_Witness ==
  /\ probe.stage = "kpi"
  /\ probe.log = TenInThreeOut
  /\ Len(probe.stock) = 1 /\ probe.stock[1].pezzi = 7000 /\ probe.stock[1].litri = 3500
  /\ probe.kpi = [pezzi |-> 7000, litri |-> 3500]

\* The key of entry e decodes to a displayed warehouse.
KeyDisplayed(e) ==
  /\ parseKey(e.k).ok
  /\ \E j \in 1..Len(warehouses) : warehouses[j].id = parseKey(e.k).k.warehouseId

\* C20: for every year filter the totals are those of the snapshot without the
\* keys that do not decode or decode to a warehouse that is not displayed: every
\* displayed warehouse has the same total, the grand total is the same, and
\* every total is a number.
C20_ForeignKeysSkipped ==
  \A fy \in YearFilters :
    LET byWarehouse == grandTotals(quantities, warehouses, fy)
        without == grandTotals(SelectSeq(quantities, KeyDisplayed), warehouses, fy)
    IN /\ \A j \in 1..Len(warehouses) :
            /\ ~byWarehouse[warehouses[j].id].nan
            /\ byWarehouse[warehouses[j].id] = without[warehouses[j].id]
       /\ ~grandTotal(byWarehouse).nan
       /\ grandTotal(byWarehouse) = grandTotal(without)

\* A number of tenths that is a whole year from 2000 to 2100.
ValidYear(v) == v % Radix = 0 /\ Whole(MinYear) <= v /\ v <= Whole(MaxYear)

\* C21: every year on the year list, and the year of every key of the
\* snapshot that decodes, is a whole number from 2000 to 2100.
C21_YearsInRange ==
  /\ \A i \in 1..Len(years) : ValidYear(years[i])
  /\ \A i \in 1..Len(quantities) :
       parseKey(quantities[i].k).ok => ValidYear(parseKey(quantities[i].k).k.year)

\* The characters of a slug.
SlugAlphabet == "abcdefghijklmnopqrstuvwxyz0123456789-"

\* The displayed warehouses have pairwise distinct ids, each of them non-empty
\* and written in the slug alphabet.
WarehouseIdsWellFormed(whs) ==
  /\ \A i, j \in 1..Len(whs) : whs[i].id = whs[j].id => i = j
  /\ \A i \in 1..Len(whs) :
       /\ whs[i].id # ""
       /\ \A n \in 1..Len(whs[i].id) :
            \E a \in 1..Len(SlugAlphabet) :
              SubSeq(whs[i].id, n, n) = SubSeq(SlugAlphabet, a, a)

\* C22: the displayed warehouses always have pairwise distinct, non-empty ids
\* of characters a-z, 0-9 and "-"; a renameWarehouse step keeps every id in its
\* place; an addWarehouse step whose name has the slug of a displayed warehouse
\* leaves the list as it was, and any other addWarehouse step with a usable
\* name appends the slug and keeps the rest.
C22_WarehouseIds ==
  /\ []WarehouseIdsWellFormed(warehouses)
  /\ [][ /\ (last'.op = "renameWarehouse" /\ ops' # ops) =>
             IdsOf(warehouses') = IdsOf(warehouses)
         /\ (last'.op = "addWarehouse" /\ ops' # ops /\ last'.text # "") =>
             IF slugOf(last'.text) \in Range(IdsOf(warehouses)) \/ slugOf(last'.text) = ""
             THEN warehouses' = warehouses
             ELSE IdsOf(warehouses') = Append(IdsOf(warehouses), slugOf(last'.text))
       ]_vars

\* "Bari_Sud" was added as bari-sud next to roma and neci, and roma was then
\* renamed: three ids, none with the delimiter, roma still roma.
C22_Witness ==
  /\ last.op = "renameWarehouse" /\ ops = MaxOps
  /\ IdsOf(warehouses) = <<"roma", "neci", "bari-sud">>
  /\ warehouses[1].name = "Rome" /\ warehouses[3].name = "Bari_Sud"

\* " ROMA " was offered as a new warehouse and refused: its slug is roma.
C22_WitnessDuplicate ==
  /\ last.op = "addWarehouse" /\ last.text = " ROMA "
  /\ last.msg = "alert: Magazzino gia presente"
  /\ IdsOf(warehouses) = <<"roma", "neci">>

\* The years the year filter of the ledger page is set to.
YearOfText == [t \in {"2024", "2023"} |-> IF t = "2024" THEN Whole(2024) ELSE Whole(2023)]

\* Row r matches every filter among warehouse, year, lot and format that is
\* not at 'Tutti'.
MatchesActive(r, f) ==
  /\ f.fWarehouse # "Tutti" => r.warehouse = f.fWarehouse
  /\ f.fYear # "Tutti" => r.year = YearOfText[f.fYear]
  /\ f.fLot # "Tutti" => r.lot = f.fLot
  /\ f.fFormat # "Tutti" => r.format = f.fFormat

\* The search text of the ledger page, trimmed and in lower case.
Needle(text) ==
  IF text = " ADA " THEN "ada" ELSE text

\* kept holds the rows of data that satisfy Ok, in the order of data.
KeptExactly(kept, data, Pass(_)) ==
  /\ \A i \in 1..Len(data) : (data[i] \in Range(kept)) <=> Pass(data[i])
  /\ \A i \in 1..Len(kept) : kept[i] \in Range(data)
  /\ \A i, j \in 1..Len(kept) :
       i < j => PlaceIn(data, kept[i]) < PlaceIn(data, kept[j])

\* C23: once the tables are filtered, a stock row is shown exactly when it
\* matches every active filter among warehouse, year, lot and format, and a
\* history row exactly when it matches those and the trimmed, lower-cased
\* search text is empty or part of its lower-cased notes or operator.
C23_LedgerFilters ==
  probe.stage # "filters" =>
    LET f == probe.f
        InStock(r) == MatchesActive(r, f)
        InHistory(h) ==
          /\ MatchesActive(h, f)
          /\ \/ Needle(f.search) = ""
             \/ IsSubstring(Needle(f.search), toLowerCase(h.notes))
             \/ IsSubstring(Needle(f.search), toLowerCase(h.operator))
    IN /\ KeptExactly(probe.stock, ReportStock, InStock)
       /\ KeptExactly(probe.history, ReportHistory, InHistory)

\* With the warehouse filter at Roma and the search " ADA ", the one stock row
\* of Roma and the one history row whose operator is Ada are shown.
C23_Witness ==
  /\ probe.stage = "filtered"
  /\ probe.f = [fWarehouse |-> "Roma", fYear |-> "Tutti", fLot |-> "Tutti",
                fFormat |-> "Tutti", search |-> " ADA "]
  /\ probe.stock = <<StockRoma>>
  /\ probe.history = <<HistoryRoma>>

\* The rows a download was made of.
Downloaded == IF probe.stage = "giacenze" THEN probe.stock ELSE probe.history

\* The columns of a download.
DownloadKeys == IF probe.stage = "giacenze" THEN StockKeys ELSE HistoryKeys

\* C24: the text of a download, cut at its newline characters, is the header
\* row followed by one row per record, and each field of a record row is its
\* text between double quotes with the quotes inside doubled.
C24_DownloadRows ==
  probe.stage \in {"giacenze", "storico"} =>
    LET lines == split(probe.csv, "\n") IN
    /\ Len(lines) = 1 + Len(Downloaded)
    /\ lines[1] = join(DownloadKeys, ",")
    /\ \A i \in 1..Len(Downloaded) :
         lines[i + 1] =
           join([j \in 1..Len(DownloadKeys) |->
                   "\"" \o DoubleQuotes(FieldText(Downloaded[i], DownloadKeys[j])) \o "\""],
                ",")

\* The snapshot and the table hold the same coordinates with the same values.
SnapshotIsStore ==
  /\ \A k \in DOMAIN store : Has(quantities, keyOf(k)) /\ Get(quantities, keyOf(k)) = store[k]
  /\ \A i \in 1..Len(quantities) : \E k \in DOMAIN store : keyOf(k) = quantities[i].k

\* C25: when only setQty calls and upserts that resolved without error have
\* followed a hydrate, and no upsert and no fetch is in flight, the table holds
\* for every coordinate the value of the snapshot.
C25_StoreFollowsSnapshot ==
  (last.quiet /\ upserts = {} /\ fetches = {}) => SnapshotIsStore

\* The entries of q are the rows of data, one entry per row.
ExactlyRows(q, data) ==
  /\ Len(q) = Len(data)
  /\ \A i \in 1..Len(data) :
       Has(q, keyOf(data[i].k)) /\ Get(q, keyOf(data[i].k)) = data[i].qty

\* C26: on the team page, when a user is signed in and a team is selected, no
\* inventory fetch is in flight and none has failed, the quantities are the
\* rows of the selected team.
C26_QuantitiesOfSelectedTeam ==
  ( /\ teamPage.userId # "" /\ teamPage.teamId # ""
    /\ ~teamPage.fetchFailed
    /\ \A c \in teamPage.calls : c.kind # "inventory" )
  => ExactlyRows(teamPage.quantities, TeamRows(teamPage.teamId))

\* C30: on the team page a selected team is the team cached in localStorage
\* and one of the teams of the loaded memberships.
C30_SelectedTeamCachedAndListed ==
  teamPage.teamId # "" =>
    /\ teamPage.saved = teamPage.teamId
    /\ \E i \in 1..Len(teamPage.teams) : teamPage.teams[i].id = teamPage.teamId

\* The coordinates named by the accepted rows of a CSV text.
AcceptedKeys(text) ==
  LET ups == ImportParse(text, <<>>, <<>>).ups IN
  {keyOf(ups[i].k) : i \in 1..Len(ups)}

\* C27: an import that applies its update changes, in memory, only the
\* coordinates named by its accepted rows: every other entry of the snapshot,
\* a setQty made while the file was being read included, is kept.
C27_ImportKeepsOtherCoordinates ==
  [][\A r \in reader :
       (onload(r) /\ ~ImportParse(r.text, r.quantities, r.years).threw) =>
         \A k \in Keys(quantities) \ AcceptedKeys(r.text) :
           Get(quantities', k) = Get(quantities, k)]_vars

\* The warehouse cell of a data line of the export.
ExportedWarehouse(line) == Cell(split(line, ","), 4).s

\* C28: every key of the snapshot decodes and re-encodes to itself, so the
\* export has one data row per entry, carrying the warehouse id the entry was
\* stored under.
C28_KeysReencode ==
  /\ \A i \in 1..Len(quantities) :
       /\ parseKey(quantities[i].k).ok
       /\ keyOf(parseKey(quantities[i].k).k) = quantities[i].k
  /\ Len(ExportRows(quantities)) = Len(quantities)
  /\ \A i \in 1..Len(quantities) :
       quantities[i].k =
         keyOf([parseKey(quantities[i].k).k EXCEPT
                  !.warehouseId = ExportedWarehouse(ExportRows(quantities)[i])])

\* The calls a submitMovement is waiting for: its insert, then its refresh.
SubmitCalls(inFlight) == {c \in inFlight : c.from = "submit"}

\* C29: submitting is false whenever no submitMovement is in flight; a
\* submitMovement that ends (a failed check, a rejected insert, or the refresh
\* after a successful insert) leaves submitting false; and a submitMovement
\* re-fetches stock and history only after its insert succeeded.
C29_SubmittingReset ==
  /\ [](SubmitCalls(calls) = {} => ~submitting)
  /\ [][/\ (event'.op = "submitMovement" /\ SubmitCalls(calls') = {}) => ~submitting'
        /\ (SubmitCalls(calls) # {} /\ SubmitCalls(calls') = {}) => ~submitting'
        /\ \A c \in SubmitCalls(calls') \ calls :
             c.kind = "refresh" =>
               /\ event'.op = "insertDone" /\ event'.failed = {}
               /\ Len(movements') = Len(movements) + 1]_vars

\* A submitMovement has ended in success: the insert went through, the refresh
\* it awaited has resolved.
C29_Witness ==
  /\ event.op = "refreshDone"
  /\ success = "Movimento registrato!"
  /\ Len(movements) = 1
  /\ SubmitCalls(calls) = {}
  /\ ~submitting

\* A submitMovement has ended with its insert rejected.
C29_WitnessRejected ==
  /\ event.op = "insertDone"
  /\ event.failed = {"movements"}
  /\ movements = <<>>
  /\ SubmitCalls(calls) = {}
  /\ ~submitting

====
